---- MODULE Spec2Model ----
(***************************************************************************)
(* Trade journal: the analytics engine (deriveTrades, computeSummary,      *)
(* computeEquityCurve, computeDrawdown, breakdown, groupStats) and the     *)
(* dashboard handlers that feed it (AddTradeForm.handleSubmit, onAdd,      *)
(* clear all, handleImportFile, the load from the remote store, sign-out). *)
(*                                                                         *)
(* Numbers.  A JavaScript number is an IEEE-754 binary float: every        *)
(* arithmetic result is rounded to the nearest value with a fixed number   *)
(* of significant bits, ties to even.  The model keeps that rounding with  *)
(* a scaled-down format: a number is an integer count of 2^-FracBits       *)
(* (the finest spacing, as in gradual underflow) and is representable iff  *)
(* its magnitude has at most MantissaBits significant bits.  The exponent  *)
(* is unbounded above (no overflow to Infinity is modelled).               *)
(***************************************************************************)
EXTENDS Integers, Sequences, FiniteSets, TLC

VARIABLES
  tradeList,       \* the dashboard's trade list, newest first
  derived,         \* deriveTrades(filteredTrades)
  summary,         \* computeSummary(derived)
  formError,       \* the entry form's error message
  importStatus,    \* the import status line, NULL when nothing is shown
  dataSource,      \* "local" or "supabase"
  store,           \* the signed-in user's rows of the remote trades table
  remoteCalls,     \* the requests the last handler sent to the remote store
  session,         \* the signed-in user, NULL when nobody is signed in
  lastUserId,      \* lastUserIdRef.current
  inFlight,        \* the trade queries that have not been answered yet
  strategies,      \* the strategy definitions, newest first
  strategyStatus,  \* the status line under the "add strategy" form
  strategyEditStatus, \* the status line under the "edit strategy" form
  editStrategyId,  \* the strategy of the "edit strategy" page, NULL on
                   \* the setup page
  timers,          \* the status timeouts that have not fired yet
  now,             \* the last reading of Date.now()
  exportFields,    \* the fields of the last row written as CSV
  exportLine,      \* that row as a line of CSV text
  parsedRows,      \* the rows parseCsv reads from that line
  timeZone         \* the time zone of the browser

views == <<derived, summary>>

remote == <<dataSource, store, remoteCalls>>

auth == <<session, lastUserId, inFlight>>

setup ==
  <<strategies, strategyStatus, strategyEditStatus, editStrategyId, timers,
    now>>

csv == <<exportFields, exportLine, parsedRows>>

\* what the journal's handlers leave alone
others == <<setup, csv, timeZone>>

journal == <<tradeList, views, formError, importStatus, remote>>

vars == <<journal, auth, others>>

(* ---------------------------------------------------------------------- *)
(* Bounds of the model                                                     *)
(* ---------------------------------------------------------------------- *)
MantissaBits == 3
FracBits == 1
MaxTrades == 3
MaxFormTrades == 2
MaxBucketTrades == 3
MaxCalendarTrades == 2
MaxRemoteRows == 3
MaxImportRows == 3
MaxRemoteImportRows == 1
MaxImportTrades == 3
MaxColumnTrades == 4

(* ---------------------------------------------------------------------- *)
(* Floating-point arithmetic                                               *)
(* ---------------------------------------------------------------------- *)
Pow2(k) == 2^k

Unit == Pow2(FracBits)

Abs(x) == IF x < 0 THEN -x ELSE x

RoundHalfEven(p, q) ==
  LET fl == p \div q
      r  == p % q
  IN  IF 2 * r < q THEN fl
      ELSE IF 2 * r > q THEN fl + 1
      ELSE IF fl % 2 = 0 THEN fl ELSE fl + 1

MantissaLimit == Pow2(MantissaBits)

RECURSIVE FExp(_, _)
\* the exponent of p/q: how many bits its magnitude has beyond the mantissa
FExp(p, q) == IF p < q * MantissaLimit THEN 0 ELSE 1 + FExp(p, 2 * q)

\* p/q rounded to the nearest representable number, ties to even
Fl(p, q) ==
  LET n == IF q < 0 THEN -p ELSE p
      d == Abs(q)
      a == Abs(n)
      s == Pow2(FExp(a, d))
      m == s * RoundHalfEven(a, d * s)
  IN  IF n < 0 THEN -m ELSE m

FAdd(a, b) == Fl(a + b, 1)
FSub(a, b) == Fl(a - b, 1)
FMul(a, b) == Fl(a * b, Unit)
FDiv(a, b) == Fl(a * Unit, b)
FNum(n) == n * Unit

Representable(n) == Fl(n, 1) = n

NULL == <<>>
Just(v) == <<v>>

(* ---------------------------------------------------------------------- *)
(* Dates and times: "YYYY-MM-DD" is <<y, m, d>>, zero-padded "HH:mm" is    *)
(* <<h, m>>; comparing the fixed-width strings is comparing the tuples.    *)
(* ---------------------------------------------------------------------- *)
DAY_NAMES == <<"Sun", "Mon", "Tue", "Wed", "Thu", "Fri", "Sat">>

\* Days since 1970-01-01 of the civil date (what Date.UTC / getTime count).
DaysFromCivil(date) ==
  LET y   == IF date[2] <= 2 THEN date[1] - 1 ELSE date[1]
      era == y \div 400
      yoe == y - era * 400
      mp  == (date[2] + 9) % 12
      doy == (153 * mp + 2) \div 5 + date[3] - 1
      doe == yoe * 365 + yoe \div 4 - yoe \div 100 + doy
  IN  era * 146097 + doe - 719468

\* Date.getDay(): 0 = Sunday (1970-01-01 was a Thursday).
GetDay(date) == (DaysFromCivil(date) + 4) % 7

\* The minutes since midnight that a time "HH:mm" names.
MinutesOf(time) == time[1] * 60 + time[2]

\* `${a.date} ${a.exitTime}`.localeCompare(...) < 0 / = 0
TupleLess(a, b) ==
  \E i \in 1..Len(a) : a[i] < b[i] /\ \A j \in 1..(i - 1) : a[j] = b[j]

\* faulty variant: the trades are ordered by exit time alone
SortKeyTimeOnly(t) == t.exitTime
SortKey(t) == t.date \o t.exitTime

(* ---------------------------------------------------------------------- *)
(* Local date-times.  A Date is the number of minutes since the epoch; the *)
(* seconds and milliseconds of every date-time the engine parses are zero. *)
(* ---------------------------------------------------------------------- *)
UTC == "UTC"
NEW_YORK == "America/New_York"

\* the first Sunday on or after the given day of a month
SundayFrom(y, m, d) == d + ((7 - GetDay(<<y, m, d>>)) % 7)

\* The minutes to add to a local "date time" to get UTC.  In New York the
\* clock goes from 02:00 to 03:00 on the second Sunday of March and from
\* 02:00 back to 01:00 on the first Sunday of November.  A local time that
\* the first change skips, or that the second one repeats, is read with
\* the offset in force before the change.
UtcOffset(zone, date, minutes) ==
  IF zone = UTC THEN 0
  ELSE LET local == date \o <<minutes>>
           y     == date[1]
           start == <<y, 3, SundayFrom(y, 3, 8), 180>>
           end   == <<y, 11, SundayFrom(y, 11, 1), 120>>
       IN  IF TupleLess(local, start) \/ ~TupleLess(local, end)
           THEN 300 ELSE 240

\* new Date(`${date}T${time}:00`).getTime(), in minutes
toDateTime(date, time) ==
  DaysFromCivil(date) * 1440 + MinutesOf(time)
    + UtcOffset(timeZone, date, MinutesOf(time))

(* ---------------------------------------------------------------------- *)
(* deriveTrades                                                            *)
(* ---------------------------------------------------------------------- *)
\* faulty variant: a negative duration is kept
tradeDurationUnclamped(entry, exit) == exit - entry

\* Math.max(0, Math.round((exit - entry) / 60000))
tradeDurationOf(entry, exit) == IF exit - entry > 0 THEN exit - entry ELSE 0

\* faulty variant: the direction is ignored, every trade counts as Long
DirectionMultiplierAlwaysLong(trade) == FNum(1)

\* trade.direction === "Long" ? 1 : -1
DirectionMultiplier(trade) ==
  IF trade.direction = "Long" THEN FNum(1) ELSE FNum(-1)

\* faulty variant: an undefined ratio is reported as 0 instead of null
RatioOrZero(value, risk) ==
  IF risk > 0 THEN Just(FDiv(value, risk)) ELSE Just(0)

\* risk > 0 ? value / risk : null
RatioOrNull(value, risk) ==
  IF risk > 0 THEN Just(FDiv(value, risk)) ELSE NULL

\* faulty variant: a result within one unit of zero counts as breakeven
WinLossWithTolerance(netPl) ==
  IF netPl > FNum(1) THEN "Win" ELSE IF netPl < FNum(-1) THEN "Loss" ELSE "BE"

\* netPl > 0 ? "Win" : netPl < 0 ? "Loss" : "BE"
WinLoss(netPl) ==
  IF netPl > 0 THEN "Win" ELSE IF netPl < 0 THEN "Loss" ELSE "BE"

deriveOne(trade) ==
  LET direction   == DirectionMultiplier(trade)
      grossPl     == FMul(FMul(FSub(trade.exitPrice, trade.entryPrice),
                               trade.sizeQty), direction)
      netPl       == grossPl
      risk        == FMul(Abs(FSub(trade.entryPrice, trade.stopLoss)),
                          trade.sizeQty)
      reward      == FMul(Abs(FSub(trade.targetPrice, trade.entryPrice)),
                          trade.sizeQty)
      riskReward  == RatioOrNull(reward, risk)
      rr          == riskReward
      rMultiple   == RatioOrNull(netPl, risk)
      winLoss     == WinLoss(netPl)
      entry       == toDateTime(trade.date, trade.entryTime)
      exit        == toDateTime(trade.date, trade.exitTime)
      duration    == tradeDurationOf(entry, exit)
      totalInv    == FMul(trade.entryPrice, trade.sizeQty)
      day         == DAY_NAMES[GetDay(trade.date) + 1]
  IN  \* { ...trade, day, risk, ... }: the later keys override the spread
      [ day             |-> day,
        risk            |-> risk,
        reward          |-> reward,
        riskReward      |-> riskReward,
        rr              |-> rr,
        pl              |-> netPl,
        grossPl         |-> grossPl,
        netPl           |-> netPl,
        winLoss         |-> winLoss,
        tradeDuration   |-> duration,
        totalInvestment |-> totalInv,
        rMultiple       |-> rMultiple ] @@ trade

RECURSIVE MapDeriveReversed(_, _)
\* faulty variant: the derived trades come out in reverse order
MapDeriveReversed(trades, n) ==
  IF n = 0 THEN <<>>
  ELSE <<deriveOne(trades[n])>> \o MapDeriveReversed(trades, n - 1)

RECURSIVE MapDerive(_, _)
\* the first n elements of trades.map(deriveOne)
MapDerive(trades, n) ==
  IF n = 0 THEN <<>>
  ELSE Append(MapDerive(trades, n - 1), deriveOne(trades[n]))

deriveTrades(trades) == MapDerive(trades, Len(trades))

(* ---------------------------------------------------------------------- *)
(* Array helpers: reduce((sum, v) => sum + v, 0), filter, Math.max/min     *)
(* ---------------------------------------------------------------------- *)
RECURSIVE SumFrom(_, _, _)
\* acc + s[i] + s[i+1] + ... left to right, each addition rounded
SumFrom(s, i, acc) ==
  IF i > Len(s) THEN acc ELSE SumFrom(s, i + 1, FAdd(acc, s[i]))

Sum(s) == SumFrom(s, 1, 0)

RECURSIVE MaxOf(_, _)
MaxOf(s, i) ==
  IF i = Len(s) THEN s[i]
  ELSE LET m == MaxOf(s, i + 1) IN IF s[i] > m THEN s[i] ELSE m

RECURSIVE MinOf(_, _)
MinOf(s, i) ==
  IF i = Len(s) THEN s[i]
  ELSE LET m == MinOf(s, i + 1) IN IF s[i] < m THEN s[i] ELSE m

IsPos(v) == v > 0
IsNeg(v) == v < 0
IsNumber(v) == v # NULL

RECURSIVE Pls(_, _)
\* trades.map((t) => t.pl), the first n elements
Pls(trades, n) ==
  IF n = 0 THEN <<>> ELSE Append(Pls(trades, n - 1), trades[n].pl)

RECURSIVE RMultiples(_, _)
\* trades.map((t) => t.rMultiple).filter(number and finite)
RMultiples(trades, n) ==
  IF n = 0 THEN <<>>
  ELSE IF IsNumber(trades[n].rMultiple)
       THEN Append(RMultiples(trades, n - 1), trades[n].rMultiple[1])
       ELSE RMultiples(trades, n - 1)

RECURSIVE RrValues(_, _)
\* trades.map((t) => t.rr).filter(number and finite)
RrValues(trades, n) ==
  IF n = 0 THEN <<>>
  ELSE IF IsNumber(trades[n].rr)
       THEN Append(RrValues(trades, n - 1), trades[n].rr[1])
       ELSE RrValues(trades, n - 1)

(* ---------------------------------------------------------------------- *)
(* computeEquityCurve: stable sort by `${date} ${exitTime}`, running sum   *)
(* ---------------------------------------------------------------------- *)
RECURSIVE InsertSorted(_, _)
\* insert t after every element whose key is <= its key (stable)
InsertSorted(sorted, t) ==
  IF sorted = <<>> THEN <<t>>
  ELSE IF TupleLess(SortKey(t), SortKey(Head(sorted)))
       THEN <<t>> \o sorted
       ELSE <<Head(sorted)>> \o InsertSorted(Tail(sorted), t)

\* faulty variant: the trades are left in the order of the list
SortTradesAsListed(trades, n) == SubSeq(trades, 1, n)

RECURSIVE SortTrades(_, _)
SortTrades(trades, n) ==
  IF n = 0 THEN <<>> ELSE InsertSorted(SortTrades(trades, n - 1), trades[n])

RECURSIVE RunningEquity(_, _, _)
RunningEquity(sorted, i, equity) ==
  IF i > Len(sorted) THEN <<>>
  ELSE LET e == FAdd(equity, sorted[i].pl)
       IN  <<[date |-> sorted[i].date, equity |-> e]>>
             \o RunningEquity(sorted, i + 1, e)

\* faulty variant: the curve starts with a point at equity 0 before the first trade
computeEquityCurveSeeded(trades) ==
  <<[date |-> <<0, 0, 0>>, equity |-> 0]>>
    \o RunningEquity(SortTrades(trades, Len(trades)), 1, 0)

computeEquityCurve(trades) ==
  RunningEquity(SortTrades(trades, Len(trades)), 1, 0)

(* ---------------------------------------------------------------------- *)
(* computeDrawdown                                                         *)
(* ---------------------------------------------------------------------- *)
\* faulty variant: the peak follows the equity down as well as up
NextPeakFollowsEquity(peak, equity) == IF equity # peak THEN equity ELSE peak

\* if (point.equity > peak) peak = point.equity
NextPeak(peak, equity) == IF equity > peak THEN equity ELSE peak

\* faulty variant: a drawdown from a zero peak is reported as 0 instead of null
DrawdownPctZeroPeak(drawdown, peak) ==
  IF peak = 0 THEN Just(0) ELSE Just(FDiv(drawdown, peak))

\* peak === 0 ? null : drawdown / peak
DrawdownPct(drawdown, peak) ==
  IF peak = 0 THEN NULL ELSE Just(FDiv(drawdown, peak))

RECURSIVE DrawdownFrom(_, _, _)
\* st = [peak, maxDrawdown, maxDrawdownPct, drawdownSeries] before point i
DrawdownFrom(curve, i, st) ==
  IF i > Len(curve) THEN st
  ELSE LET equity   == curve[i].equity
           peak     == NextPeak(st.peak, equity)
           drawdown == FSub(equity, peak)
           deeper   == drawdown < st.maxDrawdown
       IN  DrawdownFrom(curve, i + 1,
             [ peak           |-> peak,
               maxDrawdown    |-> IF deeper THEN drawdown ELSE st.maxDrawdown,
               maxDrawdownPct |-> IF deeper THEN DrawdownPct(drawdown, peak)
                                  ELSE st.maxDrawdownPct,
               drawdownSeries |-> Append(st.drawdownSeries, drawdown) ])

computeDrawdown(equityCurve) ==
  LET st == DrawdownFrom(equityCurve, 1,
              [ peak |-> 0, maxDrawdown |-> 0, maxDrawdownPct |-> NULL,
                drawdownSeries |-> <<>> ])
  IN  [ drawdownSeries |-> st.drawdownSeries,
        maxDrawdown    |-> st.maxDrawdown,
        maxDrawdownPct |-> st.maxDrawdownPct ]

(* ---------------------------------------------------------------------- *)
(* computeSummary                                                          *)
(* ---------------------------------------------------------------------- *)
\* faulty variant: the mean of no values is 0 instead of null
MeanOrZero(values) ==
  IF Len(values) # 0
  THEN Just(FDiv(Sum(values), FNum(Len(values)))) ELSE Just(0)

\* values.length ? sum(values) / values.length : null
MeanOrNull(values) ==
  IF Len(values) # 0
  THEN Just(FDiv(Sum(values), FNum(Len(values)))) ELSE NULL

\* lossesPl.length === 0 ? null : sum(winsPl) / Math.abs(sum(lossesPl))
ProfitFactor(winsPl, lossesPl) ==
  IF Len(lossesPl) = 0 THEN NULL
  ELSE Just(FDiv(Sum(winsPl), Abs(Sum(lossesPl))))

\* faulty variant: the rate is 1 as soon as any trade won
WinRateAnyWin(wins, totalTrades) ==
  IF totalTrades # 0 THEN FNum(IF wins > 0 THEN 1 ELSE 0) ELSE 0

\* totalTrades ? wins / totalTrades : 0
WinRate(wins, totalTrades) ==
  IF totalTrades # 0 THEN FDiv(FNum(wins), FNum(totalTrades)) ELSE 0

\* faulty variant: the average loss is added, not subtracted
ExpectancyAddsLoss(winRate, avgWin, avgLoss) ==
  FAdd(FMul(winRate, avgWin), FMul(FSub(FNum(1), winRate), avgLoss))

\* winRate * avgWin - (1 - winRate) * avgLoss
Expectancy(winRate, avgWin, avgLoss) ==
  FSub(FMul(winRate, avgWin), FMul(FSub(FNum(1), winRate), avgLoss))

computeSummary(trades) ==
  LET totalTrades == Len(trades)
      pls         == Pls(trades, Len(trades))
      winsPl      == SelectSeq(pls, IsPos)
      lossesPl    == SelectSeq(pls, IsNeg)
      wins        == Len(winsPl)
      losses      == Len(lossesPl)
      breakeven   == totalTrades - wins - losses
      totalPl     == Sum(pls)
      avgPl       == IF totalTrades # 0
                     THEN FDiv(totalPl, FNum(totalTrades)) ELSE 0
      avgWin      == IF Len(winsPl) # 0
                     THEN FDiv(Sum(winsPl), FNum(Len(winsPl))) ELSE 0
      avgLoss     == IF Len(lossesPl) # 0
                     THEN Abs(FDiv(Sum(lossesPl), FNum(Len(lossesPl)))) ELSE 0
      profitFactor == ProfitFactor(winsPl, lossesPl)
      winRate     == WinRate(wins, totalTrades)
      expectancy  == Expectancy(winRate, avgWin, avgLoss)
      rMultiples  == RMultiples(trades, Len(trades))
      expectancyR == MeanOrNull(rMultiples)
      rrValues    == RrValues(trades, Len(trades))
      avgRR       == MeanOrNull(rrValues)
      equityCurve == computeEquityCurve(trades)
      dd          == computeDrawdown(equityCurve)
      maxProfitTrade == IF Len(trades) # 0 THEN MaxOf(pls, 1) ELSE 0
      maxLossTrade   == IF Len(trades) # 0 THEN MinOf(pls, 1) ELSE 0
  IN  [ totalTrades    |-> totalTrades,
        wins           |-> wins,
        losses         |-> losses,
        breakeven      |-> breakeven,
        winRate        |-> winRate,
        totalPl        |-> totalPl,
        avgPl          |-> avgPl,
        avgWin         |-> avgWin,
        avgLoss        |-> avgLoss,
        profitFactor   |-> profitFactor,
        expectancy     |-> expectancy,
        expectancyR    |-> expectancyR,
        avgRR          |-> avgRR,
        equityCurve    |-> equityCurve,
        drawdownSeries |-> dd.drawdownSeries,
        maxDrawdown    |-> dd.maxDrawdown,
        maxDrawdownPct |-> dd.maxDrawdownPct,
        maxProfitTrade |-> maxProfitTrade,
        maxLossTrade   |-> maxLossTrade ]

(* ---------------------------------------------------------------------- *)
(* getISOWeek                                                              *)
(* ---------------------------------------------------------------------- *)
\* getUTCFullYear() of the day `days` after 1970-01-01
YearOfDays(days) ==
  LET z   == days + 719468
      era == z \div 146097
      doe == z - era * 146097
      yoe == (doe - doe \div 1460 + doe \div 36524 - doe \div 146096) \div 365
      doy == doe - (365 * yoe + yoe \div 4 - yoe \div 100)
      mp  == (5 * doy + 2) \div 153
      m   == IF mp < 10 THEN mp + 3 ELSE mp - 9
  IN  IF m <= 2 THEN yoe + era * 400 + 1 ELSE yoe + era * 400

\* faulty variant: the year is the calendar year of the date itself
getISOWeekOfCalendarYear(date) ==
  LET temp      == DaysFromCivil(date)
      wd        == (temp + 4) % 7
      day       == IF wd = 0 THEN 7 ELSE wd
      thursday  == temp + 4 - day
      yearStart == DaysFromCivil(<<YearOfDays(thursday), 1, 1>>)
  IN  [year |-> date[1], week |-> (thursday - yearStart + 1 + 6) \div 7]

getISOWeek(date) ==
  LET temp      == DaysFromCivil(date)
      wd        == (temp + 4) % 7
      day       == IF wd = 0 THEN 7 ELSE wd
      thursday  == temp + 4 - day
      year      == YearOfDays(thursday)
      yearStart == DaysFromCivil(<<year, 1, 1>>)
      \* Math.ceil(((temp - yearStart) / 86400000 + 1) / 7)
      week      == (thursday - yearStart + 1 + 6) \div 7
  IN  [year |-> year, week |-> week]

(* ---------------------------------------------------------------------- *)
(* breakdown: a Map in insertion order, then sorted by label               *)
(* ---------------------------------------------------------------------- *)
\* index of key in the map's entries, 0 when absent
RECURSIVE IndexOfKey(_, _, _)
IndexOfKey(entries, key, i) ==
  IF i > Len(entries) THEN 0
  ELSE IF entries[i].label = key THEN i
  ELSE IndexOfKey(entries, key, i + 1)

RECURSIVE InsertByLabel(_, _)
InsertByLabel(sorted, e) ==
  IF sorted = <<>> THEN <<e>>
  ELSE IF TupleLess(e.label, Head(sorted).label)
       THEN <<e>> \o sorted
       ELSE <<Head(sorted)>> \o InsertByLabel(Tail(sorted), e)

\* faulty variant: the rows stay in the order their keys were first seen
KeepInsertionOrder(entries, n) == SubSeq(entries, 1, n)

RECURSIVE SortByLabel(_, _)
SortByLabel(entries, n) ==
  IF n = 0 THEN <<>>
  ELSE InsertByLabel(SortByLabel(entries, n - 1), entries[n])

DayKey(trade) == trade.date
\* `${year}-W${String(week).padStart(2, "0")}`: the year and the two digits
\* of the week
WeekKey(trade) ==
  LET w == getISOWeek(trade.date)
  IN  <<w.year, w.week \div 10, w.week % 10>>
MonthKey(trade) == <<trade.date[1], trade.date[2]>>
StrategyKey(trade) == trade.strategy

\* The key callbacks the callers pass to breakdown and groupStats, each
\* passed by its name and applied here.
KeyOf(keyFn, trade) ==
  CASE keyFn = "DayKey"      -> DayKey(trade)
    [] keyFn = "WeekKey"     -> WeekKey(trade)
    [] keyFn = "MonthKey"    -> MonthKey(trade)
    [] keyFn = "StrategyKey" -> StrategyKey(trade)

RECURSIVE BreakdownMap(_, _, _, _)
BreakdownMap(trades, keyFn, i, entries) ==
  IF i > Len(trades) THEN entries
  ELSE LET key == KeyOf(keyFn, trades[i])
           at  == IndexOfKey(entries, key, 1)
       IN  BreakdownMap(trades, keyFn, i + 1,
             IF at = 0
             THEN Append(entries,
                         [label |-> key, value |-> FAdd(0, trades[i].pl)])
             ELSE [entries EXCEPT ![at].value = FAdd(@, trades[i].pl)])

breakdown(trades, keyFn) ==
  LET entries == BreakdownMap(trades, keyFn, 1, <<>>)
  IN  SortByLabel(entries, Len(entries))

breakdownByDay(trades) == breakdown(trades, "DayKey")
breakdownByWeek(trades) == breakdown(trades, "WeekKey")
breakdownByMonth(trades) == breakdown(trades, "MonthKey")

(* ---------------------------------------------------------------------- *)
(* groupStats                                                              *)
(* ---------------------------------------------------------------------- *)
RECURSIVE IndexOfName(_, _, _)
IndexOfName(groups, name, i) ==
  IF i > Len(groups) THEN 0
  ELSE IF groups[i].name = name THEN i
  ELSE IndexOfName(groups, name, i + 1)

\* faulty variant: an empty key names a group of its own
KeyAsGiven(key) == key

\* keyFn(trade) || "Unspecified"
KeyOrUnspecified(key) == IF key = "" THEN "Unspecified" ELSE key

RECURSIVE GroupMap(_, _, _, _)
GroupMap(trades, keyFn, i, groups) ==
  IF i > Len(trades) THEN groups
  ELSE LET key == KeyOrUnspecified(KeyOf(keyFn, trades[i]))
           at  == IndexOfName(groups, key, 1)
       IN  GroupMap(trades, keyFn, i + 1,
             IF at = 0
             THEN Append(groups, [name |-> key, group |-> <<trades[i]>>])
             ELSE [groups EXCEPT ![at].group = Append(@, trades[i])])

GroupStatOf(name, s) ==
  [ name         |-> name,
    trades       |-> s.totalTrades,
    winRate      |-> s.winRate,
    totalPl      |-> s.totalPl,
    avgPl        |-> s.avgPl,
    avgRR        |-> s.avgRR,
    expectancyR  |-> s.expectancyR,
    profitFactor |-> s.profitFactor ]

RECURSIVE MapGroups(_, _)
\* the first n entries of the map, each turned into its GroupStat
MapGroups(groups, n) ==
  IF n = 0 THEN <<>>
  ELSE Append(MapGroups(groups, n - 1),
              GroupStatOf(groups[n].name, computeSummary(groups[n].group)))

groupStats(trades, keyFn) ==
  LET groups == GroupMap(trades, keyFn, 1, <<>>)
  IN  MapGroups(groups, Len(groups))

\* .sort((a, b) => b.totalPl - a.totalPl), stable
RECURSIVE InsertByTotalPl(_, _)
InsertByTotalPl(sorted, g) ==
  IF sorted = <<>> THEN <<g>>
  ELSE IF g.totalPl > Head(sorted).totalPl
       THEN <<g>> \o sorted
       ELSE <<Head(sorted)>> \o InsertByTotalPl(Tail(sorted), g)

RECURSIVE SortByTotalPl(_, _)
SortByTotalPl(stats, n) ==
  IF n = 0 THEN <<>>
  ELSE InsertByTotalPl(SortByTotalPl(stats, n - 1), stats[n])

(* ---------------------------------------------------------------------- *)
(* dayOfWeekStats                                                          *)
(* ---------------------------------------------------------------------- *)
RECURSIVE DayMap(_, _, _)
\* the Map from trade.day to the trades of that day, in insertion order
DayMap(trades, i, groups) ==
  IF i > Len(trades) THEN groups
  ELSE LET key == trades[i].day
           at  == IndexOfName(groups, key, 1)
       IN  DayMap(trades, i + 1,
             IF at = 0
             THEN Append(groups, [name |-> key, group |-> <<trades[i]>>])
             ELSE [groups EXCEPT ![at].group = Append(@, trades[i])])

\* the row dayOfWeekStats returns for a day and the summary of its trades
DayStatOf(day, s) ==
  [ day     |-> day,
    trades  |-> s.totalTrades,
    winRate |-> s.winRate,
    totalPl |-> s.totalPl ]

RECURSIVE MapDays(_, _)
MapDays(groups, n) ==
  IF n = 0 THEN <<>>
  ELSE Append(MapDays(groups, n - 1),
              DayStatOf(groups[n].name, computeSummary(groups[n].group)))

\* faulty variant: the week starts on Sunday, as getDay() counts
orderFromSunday == DAY_NAMES

order == <<"Mon", "Tue", "Wed", "Thu", "Fri", "Sat", "Sun">>

\* order.indexOf(day), counted from 1 (0 when absent)
OrderIndexOf(day) ==
  IF \E i \in 1..Len(order) : order[i] = day
  THEN CHOOSE i \in 1..Len(order) : order[i] = day
  ELSE 0

\* .sort((a, b) => order.indexOf(a.day) - order.indexOf(b.day)), stable
RECURSIVE InsertByDay(_, _)
InsertByDay(sorted, row) ==
  IF sorted = <<>> THEN <<row>>
  ELSE IF OrderIndexOf(row.day) < OrderIndexOf(Head(sorted).day)
       THEN <<row>> \o sorted
       ELSE <<Head(sorted)>> \o InsertByDay(Tail(sorted), row)

RECURSIVE SortByDay(_, _)
SortByDay(rows, n) ==
  IF n = 0 THEN <<>>
  ELSE InsertByDay(SortByDay(rows, n - 1), rows[n])

dayOfWeekStats(trades) ==
  LET groups == DayMap(trades, 1, <<>>)
      rows   == MapDays(groups, Len(groups))
  IN  SortByDay(rows, Len(rows))

\* the dashboard's memoised views of derived
dayStats == dayOfWeekStats(derived)
dayBreakdown == breakdownByDay(derived)
weekBreakdown == breakdownByWeek(derived)
monthBreakdown == breakdownByMonth(derived)
strategyStats ==
  LET g == groupStats(derived, "StrategyKey") IN SortByTotalPl(g, Len(g))

(* ---------------------------------------------------------------------- *)
(* AddTradeForm: the text of a numeric input is empty, a finite numeral,   *)
(* or text that Number() turns into NaN.                                   *)
(* ---------------------------------------------------------------------- *)
EmptyTxt == [kind |-> "empty", val |-> 0]
BadTxt == [kind |-> "bad", val |-> 0]
Txt(n) == [kind |-> "num", val |-> n]

\* !text
IsBlank(text) == text.kind = "empty"
\* Number.isFinite(Number(text))
NumberIsFinite(text) == text.kind # "bad"
\* Number(text), Number("") being 0
ToNumber(text) == IF text.kind = "num" THEN text.val ELSE 0

FILL_REQUIRED == "Please fill all required fields."
NUMERIC_INVALID == "Numeric fields must be valid numbers."

\* The caller's array as each engine function leaves it.  The engine reads
\* its argument with map, filter, reduce and forEach, which change nothing,
\* spreads each trade into a new object, pushes only to arrays it created,
\* and sorts only copies ([...trades], [...map.entries()]) or arrays it was
\* just returned.

\* faulty variant: the sort runs on the argument itself
computeEquityCurveSortsArgument(trades) == SortTrades(trades, Len(trades))

\* [...trades].sort(...): the argument keeps its order
computeEquityCurveArgument(trades) == trades

\* computeSummary's argument after the call
computeSummaryArgument(trades) == computeEquityCurveArgument(trades)

\* groupStats' argument after the call: trades are pushed to new arrays
groupStatsArgument(trades) == trades

\* deriveTrades' argument after the call: {...trade, ...} builds new objects
deriveTradesArgument(trades) == trades

\* the derived array after every memo that is handed it has run
derivedAfterMemos(d) == groupStatsArgument(computeSummaryArgument(d))

\* the re-render after setTradeList: filteredTrades (all filters "all"),
\* derived and summary are recomputed from the new list; the breakdowns and
\* group statistics are functions of derived (dayBreakdown, weekBreakdown,
\* monthBreakdown, strategyStats below)
Render(list) ==
  LET d == deriveTrades(list)
  IN  /\ tradeList' = deriveTradesArgument(list)
      /\ derived' = derivedAfterMemos(d)
      /\ summary' = computeSummary(d)

\* onAdd in local mode
onAdd(trade) == Render(<<trade>> \o tradeList)

\* handleSubmit of a form that is not editing a trade
handleSubmit(f) ==
  IF \/ f.tradeId = "" \/ f.instrument = "" \/ f.exitReason = ""
     \/ IsBlank(f.entryPrice) \/ IsBlank(f.exitPrice)
     \/ IsBlank(f.stopLoss) \/ IsBlank(f.targetPrice)
  THEN /\ formError' = FILL_REQUIRED
       /\ UNCHANGED <<tradeList, views, importStatus, remote, auth, others>>
  ELSE IF \/ ~NumberIsFinite(f.sizeQty) \/ ~NumberIsFinite(f.entryPrice)
          \/ ~NumberIsFinite(f.exitPrice) \/ ~NumberIsFinite(f.stopLoss)
          \/ ~NumberIsFinite(f.targetPrice)
  THEN /\ formError' = NUMERIC_INVALID
       /\ UNCHANGED <<tradeList, views, importStatus, remote, auth, others>>
  ELSE /\ formError' = ""
       /\ UNCHANGED <<importStatus, remote, auth, others>>
       /\ onAdd([ tradeId     |-> f.tradeId,
                  date        |-> f.date,
                  instrument  |-> f.instrument,
                  market      |-> f.market,
                  entryTime   |-> f.entryTime,
                  exitTime    |-> f.exitTime,
                  strategy    |-> IF f.strategy = "" THEN "Unspecified"
                                  ELSE f.strategy,
                  direction   |-> f.direction,
                  sizeQty     |-> ToNumber(f.sizeQty),
                  entryPrice  |-> ToNumber(f.entryPrice),
                  exitPrice   |-> ToNumber(f.exitPrice),
                  stopLoss    |-> ToNumber(f.stopLoss),
                  targetPrice |-> ToNumber(f.targetPrice),
                  exitReason  |-> f.exitReason,
                  platform    |-> f.platform ])

\* the "Clear all" button, confirmed
ClearAll ==
  /\ tradeList # <<>>
  /\ Render(<<>>)
  /\ UNCHANGED <<formError, importStatus, remote, auth, others>>

(* ---------------------------------------------------------------------- *)
(* The remote store: a row's column is NULL or Just(value); a time column  *)
(* is <<h, m, s>>                                                          *)
(* ---------------------------------------------------------------------- *)
\* row.column ?? fallback
OrElse(column, fallback) == IF column = NULL THEN fallback ELSE column[1]

\* timeValue(row.column ? String(row.column) : null)
timeValue(column) ==
  IF column = NULL THEN <<0, 0>> ELSE SubSeq(column[1], 1, 2)

fromSupabaseRow(row) ==
  [ tradeId     |-> OrElse(row.trade_id, ""),
    date        |-> OrElse(row.date, <<>>),
    instrument  |-> OrElse(row.instrument, ""),
    market      |-> OrElse(row.market, "Equity"),
    entryTime   |-> timeValue(row.entry_time),
    exitTime    |-> timeValue(row.exit_time),
    strategy    |-> OrElse(row.strategy, "Unspecified"),
    direction   |-> IF row.direction = Just("Short") THEN "Short" ELSE "Long",
    sizeQty     |-> OrElse(row.size_qty, 0),
    entryPrice  |-> OrElse(row.entry_price, 0),
    exitPrice   |-> OrElse(row.exit_price, 0),
    stopLoss    |-> OrElse(row.stop_loss, 0),
    targetPrice |-> OrElse(row.target_price, 0),
    exitReason  |-> OrElse(row.exit_reason, "Manual"),
    platform    |-> OrElse(row.platform, "Web") ]

RECURSIVE MapRows(_, _)
\* data.map((row) => fromSupabaseRow(row)), the first n rows
MapRows(data, n) ==
  IF n = 0 THEN <<>>
  ELSE Append(MapRows(data, n - 1), fromSupabaseRow(data[n]))

(* ---------------------------------------------------------------------- *)
(* The remote trades table, as far as the dashboard's requests see it:     *)
(* the signed-in user's rows in the order they were inserted               *)
(* ---------------------------------------------------------------------- *)
\* toSupabaseRow(trade, session.user.id); a time column stores "HH:mm" as
\* <<h, m, 0>>
toSupabaseRow(trade) ==
  [ trade_id     |-> Just(trade.tradeId),
    date         |-> Just(trade.date),
    instrument   |-> Just(trade.instrument),
    market       |-> Just(trade.market),
    entry_time   |-> Just(Append(trade.entryTime, 0)),
    exit_time    |-> Just(Append(trade.exitTime, 0)),
    strategy     |-> Just(trade.strategy),
    direction    |-> Just(trade.direction),
    size_qty     |-> Just(trade.sizeQty),
    entry_price  |-> Just(trade.entryPrice),
    exit_price   |-> Just(trade.exitPrice),
    stop_loss    |-> Just(trade.stopLoss),
    target_price |-> Just(trade.targetPrice),
    exit_reason  |-> Just(trade.exitReason),
    platform     |-> Just(trade.platform) ]

RECURSIVE MapToRows(_, _)
\* imported.map((trade) => toSupabaseRow(trade, session.user.id))
MapToRows(trades, n) ==
  IF n = 0 THEN <<>>
  ELSE Append(MapToRows(trades, n - 1), toSupabaseRow(trades[n]))

\* one batch must not name a trade_id twice: the table rejects an upsert
\* that would update one row a second time
NamesOneIdTwice(batch) ==
  \E i, j \in 1..Len(batch) : i < j /\ batch[i].trade_id = batch[j].trade_id

\* upsert of one row, onConflict "user_id,trade_id": the row with the same
\* trade_id is replaced where it stands, any other row is appended
UpsertRow(rows, row) ==
  IF \E i \in 1..Len(rows) : rows[i].trade_id = row.trade_id
  THEN [i \in 1..Len(rows) |->
          IF rows[i].trade_id = row.trade_id THEN row ELSE rows[i]]
  ELSE Append(rows, row)

RECURSIVE UpsertRows(_, _, _)
\* upsert of the first n rows of a batch
UpsertRows(rows, batch, n) ==
  IF n = 0 THEN rows
  ELSE UpsertRow(UpsertRows(rows, batch, n - 1), batch[n])

\* the order key of .order("date", {ascending: false})
\* .order("entry_time", {ascending: false}); a null column sorts first
RowOrderKey(row) ==
  OrElse(row.date, <<9999, 99, 99>>) \o OrElse(row.entry_time, <<99, 99, 99>>)

RECURSIVE InsertRowDescending(_, _)
\* insert row after every row whose key is >= its key
InsertRowDescending(sorted, row) ==
  IF sorted = <<>> THEN <<row>>
  ELSE IF TupleLess(RowOrderKey(Head(sorted)), RowOrderKey(row))
       THEN <<row>> \o sorted
       ELSE <<Head(sorted)>> \o InsertRowDescending(Tail(sorted), row)

RECURSIVE SelectTrades(_, _)
\* select("*") of the user's rows, newest date and entry time first
SelectTrades(rows, n) ==
  IF n = 0 THEN <<>>
  ELSE InsertRowDescending(SelectTrades(rows, n - 1), rows[n])

(* ---------------------------------------------------------------------- *)
(* CSV import.  A parsed file is a sequence of lines, a line a sequence    *)
(* of cells.  A cell is [kind, pad, val]: pad says that white space        *)
(* surrounds the text, kind and val say what the text is:                  *)
(*   "blank"    nothing (val <<>>)                                         *)
(*   "chars"    the characters val (header names, the Direction column)    *)
(*   "text"     the string val                                             *)
(*   "num"      a numeral of the number val                                *)
(*   "grouped"  a numeral of val written with thousands separators         *)
(*   "date"     "YYYY-MM-DD" of the date val                               *)
(*   "time"     "H:mm" or "HH:mm" of the time val                          *)
(* ---------------------------------------------------------------------- *)
Cell(kind, val) == [kind |-> kind, pad |-> FALSE, val |-> val]
EmptyCell == Cell("blank", <<>>)
Padded(cell) == [cell EXCEPT !.pad = TRUE]

\* value.trim()
trim(cell) == [cell EXCEPT !.pad = FALSE]
\* value === "" (or !value)
IsEmptyString(cell) == cell.kind = "blank" /\ ~cell.pad

UpperCase ==
  <<"A", "B", "C", "D", "E", "F", "G", "H", "I", "J", "K", "L", "M", "N", "O", "P", "Q", "R", "S", "T", "U", "V", "W", "X", "Y", "Z">>
LowerCase ==
  <<"a", "b", "c", "d", "e", "f", "g", "h", "i", "j", "k", "l", "m", "n", "o", "p", "q", "r", "s", "t", "u", "v", "w", "x", "y", "z">>
Digits == {"0", "1", "2", "3", "4", "5", "6", "7", "8", "9"}

\* the lower-case letter of each upper-case letter
LowerOf ==
  [c \in {UpperCase[i] : i \in 1..Len(UpperCase)} |->
     LowerCase[CHOOSE i \in 1..Len(UpperCase) : UpperCase[i] = c]]

\* one character of value.toLowerCase()
toLowerCase(c) == IF c \in DOMAIN LowerOf THEN LowerOf[c] ELSE c

LowerCased(value) == [i \in 1..Len(value) |-> toLowerCase(value[i])]

LowerAlnum == {LowerCase[i] : i \in 1..Len(LowerCase)} \cup Digits

\* /[^a-z0-9]/ does not match c
IsLowerAlnum(c) == c \in LowerAlnum

\* value.toLowerCase().replace(/[^a-z0-9]/g, "")
normalizeHeader(value) == SelectSeq(LowerCased(value), IsLowerAlnum)

REQUIRED_HEADERS ==
  <<
     <<"T", "r", "a", "d", "e", " ", "I", "D">>,
     <<"D", "a", "t", "e">>,
     <<"I", "n", "s", "t", "r", "u", "m", "e", "n", "t">>,
     <<"M", "a", "r", "k", "e", "t">>,
     <<"E", "n", "t", "r", "y", " ", "T", "i", "m", "e">>,
     <<"E", "x", "i", "t", " ", "T", "i", "m", "e">>,
     <<"S", "t", "r", "a", "t", "e", "g", "y">>,
     <<"D", "i", "r", "e", "c", "t", "i", "o", "n">>,
     <<"S", "i", "z", "e", " ", "(", "Q", "t", "y", ".", ")">>,
     <<"E", "n", "t", "r", "y", " ", "P", "r", "i", "c", "e">>,
     <<"E", "x", "i", "t", " ", "P", "r", "i", "c", "e">>,
     <<"S", "t", "o", "p", " ", "L", "o", "s", "s">>,
     <<"T", "a", "r", "g", "e", "t", " ", "P", "r", "i", "c", "e">>,
     <<"E", "x", "i", "t", " ", "R", "e", "a", "s", "o", "n">>,
     <<"P", "l", "a", "t", "f", "o", "r", "m">>
  >>

\* text.includes(pattern)
Includes(text, pattern) ==
  \E i \in 1..(Len(text) - Len(pattern) + 1) :
     SubSeq(text, i, i + Len(pattern) - 1) = pattern

\* row.some((value) => value.trim() !== "")
HasValue(line) == \E i \in 1..Len(line) : ~IsEmptyString(trim(line[i]))

\* parseCsv of a text given line by line and cell by cell: the lines with
\* a value in some cell
parseCsvLines(text) == SelectSeq(text, HasValue)

\* headerMap after headerRow.forEach(...): the normalised name of every
\* column; of two columns with one name the map keeps the later
headerMapOf(headerRow) ==
  [i \in 1..Len(headerRow) |-> normalizeHeader(headerRow[i].val)]

\* headerMap.get(key): the last column whose normalised name is key, 0 for
\* undefined
headerMapGet(headerMap, key) ==
  LET columns == { i \in 1..Len(headerMap) : headerMap[i] = key }
  IN  IF columns = {} THEN 0
      ELSE CHOOSE i \in columns : \A j \in columns : j <= i

\* normalizeHeader(header) of each required header
RequiredKey ==
  [header \in {REQUIRED_HEADERS[i] : i \in 1..Len(REQUIRED_HEADERS)} |->
     normalizeHeader(header)]

\* (header) => !headerMap.has(normalizeHeader(header))
IsMissing(headerMap, header) ==
  headerMapGet(headerMap, RequiredKey[header]) = 0

RECURSIVE FilterMissing(_, _)
\* REQUIRED_HEADERS.filter(...), the first n headers
FilterMissing(headerMap, n) ==
  IF n = 0 THEN <<>>
  ELSE IF IsMissing(headerMap, REQUIRED_HEADERS[n])
       THEN Append(FilterMissing(headerMap, n - 1), REQUIRED_HEADERS[n])
       ELSE FilterMissing(headerMap, n - 1)

\* faulty variant: only the first missing header is reported
missingHeadersFirstOnly(headerMap) ==
  SubSeq(FilterMissing(headerMap, Len(REQUIRED_HEADERS)), 1, 1)

missingHeaders(headerMap) == FilterMissing(headerMap, Len(REQUIRED_HEADERS))

\* getCell(row, header): row[index] ?? ""
getCell(row, headerMap, header) ==
  LET index == headerMapGet(headerMap, RequiredKey[header])
  IN  IF index = 0 \/ index > Len(row) THEN EmptyCell ELSE row[index]

\* getCell(...).trim() || fallback
TrimOr(cell, fallback) ==
  IF IsEmptyString(trim(cell)) THEN fallback ELSE trim(cell).val

\* normalizeDate: "" (here <<>>) for an empty or unparsable text, an ISO
\* date as it stands
normalizeDate(value) ==
  LET trimmed == trim(value)
  IN  IF IsEmptyString(trimmed) THEN <<>>
      ELSE IF trimmed.kind = "date" THEN trimmed.val
      ELSE <<>>

\* normalizeTime: "" (here <<>>) for an empty text or one without a colon,
\* else the zero-padded hours and minutes
normalizeTime(value) ==
  LET trimmed == trim(value)
  IN  IF IsEmptyString(trimmed) THEN <<>>
      ELSE IF trimmed.kind = "time" THEN SubSeq(trimmed.val, 1, 2)
      ELSE <<>>

\* parseNumber: commas removed, trimmed; null for an empty text and for a
\* text that is not a finite number
parseNumber(value) ==
  LET cleaned == trim(IF value.kind = "grouped"
                      THEN [value EXCEPT !.kind = "num"] ELSE value)
  IN  IF IsEmptyString(cleaned) THEN NULL
      ELSE IF cleaned.kind = "num" THEN Just(cleaned.val)
      ELSE NULL

\* directionRaw.includes("short") ? "Short" : "Long"
directionOf(cell) ==
  IF Includes(LowerCased(cell.val), <<"s", "h", "o", "r", "t">>)
  THEN "Short" ELSE "Long"

\* `CSV-${importStamp}-${index + 1}`, importStamp in digits
csvTradeId(importStamp, index) ==
  "CSV-" \o importStamp \o "-" \o ToString(index + 1)

TRADE_ID == REQUIRED_HEADERS[1]
DATE == REQUIRED_HEADERS[2]
INSTRUMENT == REQUIRED_HEADERS[3]
MARKET == REQUIRED_HEADERS[4]
ENTRY_TIME == REQUIRED_HEADERS[5]
EXIT_TIME == REQUIRED_HEADERS[6]
STRATEGY == REQUIRED_HEADERS[7]
DIRECTION == REQUIRED_HEADERS[8]
SIZE_QTY == REQUIRED_HEADERS[9]
ENTRY_PRICE == REQUIRED_HEADERS[10]
EXIT_PRICE == REQUIRED_HEADERS[11]
STOP_LOSS == REQUIRED_HEADERS[12]
TARGET_PRICE == REQUIRED_HEADERS[13]
EXIT_REASON == REQUIRED_HEADERS[14]
PLATFORM == REQUIRED_HEADERS[15]

\* the fields read from one row (index counts the data rows from 0)
rowFields(row, headerMap, importStamp, index) ==
  [ tradeId     |-> TrimOr(getCell(row, headerMap, TRADE_ID),
                           csvTradeId(importStamp, index)),
    date        |-> normalizeDate(getCell(row, headerMap, DATE)),
    instrument  |-> TrimOr(getCell(row, headerMap, INSTRUMENT), ""),
    market      |-> TrimOr(getCell(row, headerMap, MARKET), "Equity"),
    entryTime   |-> normalizeTime(getCell(row, headerMap, ENTRY_TIME)),
    exitTime    |-> normalizeTime(getCell(row, headerMap, EXIT_TIME)),
    strategy    |-> TrimOr(getCell(row, headerMap, STRATEGY), "Unspecified"),
    direction   |-> directionOf(getCell(row, headerMap, DIRECTION)),
    sizeQty     |-> parseNumber(getCell(row, headerMap, SIZE_QTY)),
    entryPrice  |-> parseNumber(getCell(row, headerMap, ENTRY_PRICE)),
    exitPrice   |-> parseNumber(getCell(row, headerMap, EXIT_PRICE)),
    stopLoss    |-> parseNumber(getCell(row, headerMap, STOP_LOSS)),
    targetPrice |-> parseNumber(getCell(row, headerMap, TARGET_PRICE)),
    exitReason  |-> TrimOr(getCell(row, headerMap, EXIT_REASON), "Manual"),
    platform    |-> TrimOr(getCell(row, headerMap, PLATFORM), "Web") ]

\* the condition under which the row is skipped
isSkipped(f) ==
  \/ f.date = <<>> \/ f.instrument = ""
  \/ f.entryTime = <<>> \/ f.exitTime = <<>>
  \/ f.sizeQty = NULL \/ f.entryPrice = NULL \/ f.exitPrice = NULL
  \/ f.stopLoss = NULL \/ f.targetPrice = NULL

\* the trade pushed for a row that is not skipped; a parsed number that is
\* null stays null
tradeOfFields(f) ==
  [f EXCEPT !.sizeQty     = OrElse(f.sizeQty, NULL),
            !.entryPrice  = OrElse(f.entryPrice, NULL),
            !.exitPrice   = OrElse(f.exitPrice, NULL),
            !.stopLoss    = OrElse(f.stopLoss, NULL),
            !.targetPrice = OrElse(f.targetPrice, NULL)]

RECURSIVE importRowsReversed(_, _, _, _)
\* faulty variant: each kept row goes to the front of imported
importRowsReversed(rows, headerMap, importStamp, n) ==
  IF n <= 1 THEN [imported |-> <<>>, skipped |-> 0]
  ELSE LET before == importRowsReversed(rows, headerMap, importStamp, n - 1)
           f      == rowFields(rows[n], headerMap, importStamp, n - 2)
       IN  IF isSkipped(f)
           THEN [before EXCEPT !.skipped = before.skipped + 1]
           ELSE [before EXCEPT
                   !.imported = <<tradeOfFields(f)>> \o before.imported]

RECURSIVE importRows(_, _, _, _)
\* rows.slice(1).forEach(...) over the rows 2..n: imported and skipped
importRows(rows, headerMap, importStamp, n) ==
  IF n <= 1 THEN [imported |-> <<>>, skipped |-> 0]
  ELSE LET before == importRows(rows, headerMap, importStamp, n - 1)
           f      == rowFields(rows[n], headerMap, importStamp, n - 2)
       IN  IF isSkipped(f)
           THEN [before EXCEPT !.skipped = before.skipped + 1]
           ELSE [before EXCEPT
                   !.imported = Append(before.imported, tradeOfFields(f))]

\* a status line: its fixed text and the values spliced into it
Status(text, args) == Just([text |-> text, args |-> args])

NO_ROWS == Status("No rows found in CSV.", <<>>)
NO_VALID_ROWS == Status("No valid rows found. Check required fields.", <<>>)
\* `Missing headers: ${missing.join(", ")}`
MissingHeadersStatus(missing) == Status("Missing headers: ", missing)
\* `Imported ${n} trade${n === 1 ? "" : "s"}${skipped ? `, skipped ${skipped}` : ""}.`
ImportedStatus(n, skipped) ==
  Status("Imported ",
         <<n, IF n = 1 THEN " trade" ELSE " trades">>
           \o (IF skipped # 0 THEN <<", skipped ", skipped>> ELSE <<>>))
DELETE_FAILED == Status("Supabase delete failed: ", <<"error">>)
IMPORT_FAILED == Status("Supabase import failed: ", <<"error">>)
FETCH_ERROR == Status("Supabase error: ", <<"error">>)

\* What one run of handleImportFile does: the status it shows, the list
\* it sets (NULL when setTradeList is not called), the rows of the store
\* and the requests sent when it returns, and its locals imported and
\* skipped.
Outcome(status, list, rows, calls, imported, skipped) ==
  [ importStatus |-> status, tradeList |-> list, store |-> rows,
    remoteCalls |-> calls, imported |-> imported, skipped |-> skipped ]

\* the remote branch of the import; failing names the request that fails
\* ("none" when all succeed).  The dashboard is rendered in remote mode
\* only with the client configured and a session present.
importToSupabase(imported, skipped, replaceOnImport, failing) ==
  LET deleted   == IF replaceOnImport THEN <<"delete">> ELSE <<>>
      remaining == IF replaceOnImport THEN <<>> ELSE store
      batch     == MapToRows(imported, Len(imported))
      upserted  == UpsertRows(remaining, batch, Len(batch))
      data      == SelectTrades(upserted, Len(upserted))
  IN  IF replaceOnImport /\ failing = "delete"
      THEN Outcome(DELETE_FAILED, NULL, store, deleted, imported, skipped)
      ELSE IF failing = "upsert" \/ NamesOneIdTwice(batch)
      THEN Outcome(IMPORT_FAILED, NULL, remaining,
                   deleted \o <<"upsert">>, imported, skipped)
      ELSE Outcome(ImportedStatus(Len(imported), skipped),
                   IF failing = "select" THEN NULL
                   ELSE Just(MapRows(data, Len(data))),
                   upserted, deleted \o <<"upsert", "select">>,
                   imported, skipped)

\* the local branch of the import
importToList(imported, skipped, replaceOnImport) ==
  Outcome(ImportedStatus(Len(imported), skipped),
          Just(IF replaceOnImport THEN imported ELSE imported \o tradeList),
          store, <<>>, imported, skipped)

\* the rows read once the headers are known to be complete
importParsed(rows, headerMap, replaceOnImport, importStamp, failing) ==
  LET done == importRows(rows, headerMap, importStamp, Len(rows))
  IN  IF done.imported = <<>>
      THEN Outcome(NO_VALID_ROWS, NULL, store, <<>>, <<>>, done.skipped)
      ELSE IF dataSource = "supabase"
      THEN importToSupabase(done.imported, done.skipped, replaceOnImport,
                            failing)
      ELSE importToList(done.imported, done.skipped, replaceOnImport)

\* handleImportFile of a file with the given parsed text, read at time
\* importStamp, with the "replace" box as given
importOutcome(text, replaceOnImport, importStamp, failing) ==
  LET rows == parseCsvLines(text)
  IN  IF rows = <<>>
      THEN Outcome(NO_ROWS, NULL, store, <<>>, <<>>, 0)
      ELSE LET headerMap == headerMapOf(rows[1])
               missing   == missingHeaders(headerMap)
           IN  IF missing # <<>>
               THEN Outcome(MissingHeadersStatus(missing), NULL, store, <<>>,
                            <<>>, 0)
               ELSE importParsed(rows, headerMap, replaceOnImport,
                                 importStamp, failing)

\* the state after handleImportFile
handleImportFile(text, replaceOnImport, importStamp, failing) ==
  \E o \in {importOutcome(text, replaceOnImport, importStamp, failing)} :
    /\ importStatus' = o.importStatus
    /\ store' = o.store
    /\ remoteCalls' = o.remoteCalls
    /\ IF o.tradeList = NULL THEN UNCHANGED <<tradeList, views>>
       ELSE Render(o.tradeList[1])
    /\ UNCHANGED <<formError, dataSource, auth, others>>

(* ---------------------------------------------------------------------- *)
(* Loading the signed-in user's trades, signing out                        *)
(* ---------------------------------------------------------------------- *)
\* the effect that loads the signed-in user's trades: on an error the list
\* is emptied, otherwise it becomes the rows the store returned
FetchTrades(failed, data) ==
  /\ importStatus' = IF failed THEN FETCH_ERROR ELSE NULL
  /\ remoteCalls' = <<"select">>
  /\ Render(IF failed \/ data = NULL THEN <<>>
            ELSE MapRows(data[1], Len(data[1])))
  /\ UNCHANGED <<formError, dataSource, store, others>>

\* handleSignOut.  auth.signOut() either ends the session, and then the
\* auth listener has run with no session before signOut() returns, or it
\* fails and the listener has not run; handleSignOut goes on either way
handleSignOut(signedOut) ==
  /\ session' = NULL
  /\ lastUserId' = IF signedOut THEN NULL ELSE lastUserId
  /\ importStatus' = IF signedOut /\ lastUserId # NULL THEN NULL
                     ELSE importStatus
  /\ Render(<<>>)
  /\ UNCHANGED <<formError, remote, inFlight, others>>

(* ---------------------------------------------------------------------- *)
(* Inputs                                                                  *)
(* ---------------------------------------------------------------------- *)
One == FNum(1)
\* the first magnitude at which adding 1.0 is no longer exact
Big == FNum(Pow2(MantissaBits))

Date1 == <<2026, 1, 5>>
Date2 == <<2026, 1, 6>>
\* a Wednesday and a Sunday of ISO week 2026-W01, in different months; Date1
\* is the Monday of 2026-W02
DateWed == <<2025, 12, 31>>
DateSun == <<2026, 1, 4>>
Time1 == <<9, 30>>
Time2 == <<10, 30>>
Time3 == <<11, 15>>

BaseForm ==
  [ tradeId     |-> "T-1",
    date        |-> Date1,
    instrument  |-> "Nifty",
    market      |-> "Equity",
    entryTime   |-> Time1,
    exitTime    |-> Time2,
    strategy    |-> "",
    direction   |-> "Long",
    sizeQty     |-> Txt(One),
    entryPrice  |-> Txt(0),
    exitPrice   |-> Txt(0),
    stopLoss    |-> Txt(One),
    targetPrice |-> Txt(Big),
    exitReason  |-> "Target",
    platform    |-> "Web" ]

\* Forms of the journal: one unit bought or sold at 0 and closed at 0, 1 or
\* Big (pl 0, +-1, +-Big), exited late on the first day or early on the
\* second.
JournalForms ==
  { [BaseForm EXCEPT !.direction = dir, !.exitPrice = Txt(ex),
                     !.date = slot[1], !.exitTime = slot[2]] :
      dir \in {"Long", "Short"}, ex \in {0, One, Big},
      slot \in {<<Date1, Time3>>, <<Date2, Time2>>} }

\* Forms of one trade in every shape the form accepts or rejects: entered
\* at 1, closed below or above, with a negative, empty (Number("") = 0) or
\* positive quantity, the stop below, above or at the entry, and forms with
\* a missing or non-numeric field.
TradeForms ==
  { [BaseForm EXCEPT !.direction = dir, !.sizeQty = qty,
                     !.entryPrice = Txt(One), !.exitPrice = Txt(ex),
                     !.stopLoss = Txt(br[1]), !.targetPrice = Txt(br[2])] :
      dir \in {"Long", "Short"}, qty \in {Txt(-One), EmptyTxt, Txt(One)},
      ex \in {0, Big},
      br \in {<<0, Big>>, <<Big, 0>>, <<One, Big>>} }

RejectedForms ==
  { [BaseForm EXCEPT !.entryPrice = EmptyTxt],
    [BaseForm EXCEPT !.exitReason = ""],
    [BaseForm EXCEPT !.sizeQty = BadTxt],
    [BaseForm EXCEPT !.stopLoss = BadTxt] }

\* Forms for the grouped views: a large tagged winner, a small untagged
\* winner and a small untagged loser, exited late on the Wednesday or the Sunday, or early or
\* late on the Monday.
BucketForms ==
  { [BaseForm EXCEPT !.direction = v[1], !.exitPrice = Txt(v[2]),
                     !.strategy = v[3],
                     !.date = slot[1], !.exitTime = slot[2]] :
      v \in {<<"Long", Big, "Breakout">>, <<"Long", One, "">>,
             <<"Short", One, "">>},
      slot \in {<<DateWed, Time3>>, <<DateSun, Time3>>,
                <<Date1, Time2>>, <<Date1, Time3>>} }

\* The days around two turns of the year.  Week 1 of 2025 runs from
\* 2024-12-30 to 2025-01-05; 2026 has 53 weeks, the last running from
\* 2026-12-28 to 2027-01-03.  Both weeks are there in full, with the Sunday
\* before and the Monday after, and the last day of week 1 of 2027 with
\* the Monday after it.
CalendarDates ==
  {<<2024, 12, d>> : d \in 29..31} \cup {<<2025, 1, d>> : d \in 1..6}
    \cup {<<2026, 12, d>> : d \in 27..31} \cup {<<2027, 1, d>> : d \in 1..4}
    \cup {<<2027, 1, 10>>, <<2027, 1, 11>>}

CalendarForms == { [BaseForm EXCEPT !.date = d] : d \in CalendarDates }

\* Rows of the remote store, all of one day and one entry time (the store
\* returns them by date and entry time, descending): a large winner
\* tagged Breakout, and small winners and losers whose strategy is empty,
\* null or spelled "Unspecified".
BaseRow ==
  [ trade_id     |-> Just("T-1"),
    date         |-> Just(Date1),
    instrument   |-> Just("Nifty"),
    market       |-> Just("Equity"),
    entry_time   |-> Just(<<9, 30, 0>>),
    exit_time    |-> Just(<<10, 30, 0>>),
    strategy     |-> Just("Breakout"),
    direction    |-> Just("Long"),
    size_qty     |-> Just(One),
    entry_price  |-> Just(0),
    exit_price   |-> Just(Big),
    stop_loss    |-> Just(One),
    target_price |-> Just(Big),
    exit_reason  |-> Just("Target"),
    platform     |-> Just("Web") ]

RemoteRows ==
  { BaseRow,
    [BaseRow EXCEPT !.strategy = Just(""), !.exit_price = Just(One)],
    [BaseRow EXCEPT !.strategy = NULL, !.exit_price = Just(One)],
    [BaseRow EXCEPT !.strategy = Just(""), !.exit_price = Just(One),
                    !.direction = Just("Short")],
    [BaseRow EXCEPT !.strategy = Just("Unspecified"),
                    !.exit_price = Just(One), !.direction = Just("Short"),
                    !.exit_time = NULL] }

\* the lists of at most MaxRemoteRows rows
RemoteData ==
  UNION { [1..n -> RemoteRows] : n \in 0..MaxRemoteRows }

\* CSV files.  The header line in the spelling of REQUIRED_HEADERS, and
\* respelled: lower case with underscores, upper case, white space around.
HeaderLine ==
  [i \in 1..Len(REQUIRED_HEADERS) |-> Cell("chars", REQUIRED_HEADERS[i])]

toUpperCase(c) ==
  IF \E i \in 1..Len(LowerCase) : LowerCase[i] = c
  THEN UpperCase[CHOOSE i \in 1..Len(LowerCase) : LowerCase[i] = c]
  ELSE c

SnakeCase(name) ==
  [i \in 1..Len(name) |-> IF name[i] = " " THEN "_" ELSE toLowerCase(name[i])]

ShoutCase(name) == [i \in 1..Len(name) |-> toUpperCase(name[i])]

RespelledHeaderLine ==
  [i \in 1..Len(REQUIRED_HEADERS) |->
     IF i % 3 = 0 THEN Cell("chars", SnakeCase(REQUIRED_HEADERS[i]))
     ELSE IF i % 3 = 1 THEN Cell("chars", ShoutCase(REQUIRED_HEADERS[i]))
     ELSE Padded(Cell("chars", REQUIRED_HEADERS[i]))]

\* A data line, its cells in the order of REQUIRED_HEADERS: a short sale
\* of one unit at 0, covered at Big.
BaseLine ==
  << Cell("text", "T-1"), Cell("date", Date1), Cell("text", "Nifty"),
     Cell("text", "Futures"), Cell("time", Time1), Cell("time", Time2),
     Cell("text", "Breakout"), Cell("chars", <<"S", "h", "o", "r", "t">>),
     Cell("num", One), Cell("num", 0), Cell("num", Big),
     Cell("num", One), Cell("num", Big),
     Cell("text", "Target"), Cell("text", "Mobile") >>

\* A later purchase closed one higher, with white space around the cells
\* and thousands separators in the numbers.
SecondLine ==
  << Padded(Cell("text", "T-2")), Padded(Cell("date", Date2)),
     Padded(Cell("text", "Nifty")), Padded(Cell("text", "Equity")),
     Padded(Cell("time", Time1)), Padded(Cell("time", Time3)),
     Padded(Cell("text", "Breakout")),
     Padded(Cell("chars", <<"B", "u", "y">>)),
     Padded(Cell("grouped", Big)), Cell("grouped", 0), Cell("num", One),
     Cell("num", One), Cell("num", Big),
     Padded(Cell("text", "Manual")), Padded(Cell("text", "Web")) >>

\* a line of empty cells and white space
BlankLine ==
  [i \in 1..Len(REQUIRED_HEADERS) |->
     IF i = 2 THEN Padded(EmptyCell) ELSE EmptyCell]

\* the line with nothing in one column
Without(line, column) == [line EXCEPT ![column] = EmptyCell]

\* the cells of a line in the given columns
Columns(line, columns) == [i \in 1..Len(columns) |-> line[columns[i]]]

AllColumns == [i \in 1..Len(REQUIRED_HEADERS) |-> i]
ReversedColumns ==
  [i \in 1..Len(REQUIRED_HEADERS) |-> Len(REQUIRED_HEADERS) + 1 - i]
IsNotStrategyOrPlatform(column) == column \notin {7, 15}

\* The layouts of a file: the header names and the columns present.  All
\* columns, respelled and in reverse order; no Strategy and no Platform
\* column.
Layouts ==
  << [header |-> RespelledHeaderLine, columns |-> ReversedColumns],
     [header |-> HeaderLine,
      columns |-> SelectSeq(AllColumns, IsNotStrategyOrPlatform)] >>

\* the data lines of the import files: the two trades, the first without
\* its entry price, and the blank line
ImportLines ==
  <<BaseLine, SecondLine, Without(BaseLine, 10), BlankLine>>

\* the text of a file: the header and the data lines in one layout
TextOf(layout, lines) ==
  <<Columns(layout.header, layout.columns)>>
    \o [i \in 1..Len(lines) |-> Columns(lines[i], layout.columns)]

\* the choices of at most n lines from a menu
Picks(menu, n) == UNION { [1..k -> 1..Len(menu)] : k \in 0..n }

Picked(menu, picks) == [i \in 1..Len(picks) |-> menu[picks[i]]]

\* a reading of Date.now(), in digits
Clock == {"1767605400000"}

\* the request of an import that fails, if any
Failures == {"none", "delete", "upsert", "select"}

UserA == "user-a"
UserB == "user-b"

(* ---------------------------------------------------------------------- *)
(* Specification Spec: the journal in local mode                           *)
(* ---------------------------------------------------------------------- *)
\* nobody is signed in and no query is under way
InitAuth == session = NULL /\ lastUserId = NULL /\ inFlight = <<>>

\* no strategy is defined
InitSetup ==
  /\ strategies = <<>>
  /\ strategyStatus = ""
  /\ strategyEditStatus = ""
  /\ editStrategyId = NULL
  /\ timers = 0
  /\ now = 0

\* nothing has been written as CSV
InitCsv == exportFields = <<>> /\ exportLine = <<>> /\ parsedRows = <<>>

Init ==
  /\ tradeList = <<>>
  /\ derived = deriveTrades(tradeList)
  /\ summary = computeSummary(derived)
  /\ formError = ""
  /\ importStatus = NULL
  /\ dataSource = "local"
  /\ store = <<>>
  /\ remoteCalls = <<>>
  /\ InitAuth /\ InitSetup /\ InitCsv /\ timeZone = UTC

AddTrade ==
  /\ Len(tradeList) < MaxTrades
  /\ \E f \in JournalForms : handleSubmit(f)

Next == AddTrade \/ ClearAll

Spec == Init /\ [][Next]_vars

(* ---------------------------------------------------------------------- *)
(* Specification SpecForm: the entry form, every shape of one trade        *)
(* ---------------------------------------------------------------------- *)
SubmitForm ==
  /\ Len(tradeList) < MaxFormTrades
  /\ \E f \in TradeForms \cup RejectedForms : handleSubmit(f)

NextForm == SubmitForm \/ ClearAll

SpecForm == Init /\ [][NextForm]_vars

(* ---------------------------------------------------------------------- *)
(* Specification SpecBuckets: trades spread over days, weeks, months,      *)
(* weekdays and strategies                                                 *)
(* ---------------------------------------------------------------------- *)
AddBucketTrade ==
  /\ Len(tradeList) < MaxBucketTrades
  /\ \E f \in BucketForms : handleSubmit(f)

NextBuckets == AddBucketTrade \/ ClearAll

SpecBuckets == Init /\ [][NextBuckets]_vars

(* ---------------------------------------------------------------------- *)
(* Specification SpecCalendar: trades on the days around a turn of the     *)
(* year                                                                    *)
(* ---------------------------------------------------------------------- *)
AddOnDate ==
  /\ Len(tradeList) < MaxCalendarTrades
  /\ \E f \in CalendarForms : handleSubmit(f)

NextCalendar == AddOnDate \/ ClearAll

SpecCalendar == Init /\ [][NextCalendar]_vars

(* ---------------------------------------------------------------------- *)
(* Specification SpecRemote: the journal of a signed-in user, loaded from  *)
(* the remote store                                                        *)
(* ---------------------------------------------------------------------- *)
\* the session appears (sign-in) while the list is still empty
LoadTrades ==
  /\ dataSource = "supabase"
  /\ tradeList = <<>>
  /\ session' = Just(UserA)
  /\ lastUserId' = Just(UserA)
  /\ UNCHANGED inFlight
  /\ \/ FetchTrades(FALSE, Just(SelectTrades(store, Len(store))))
     \/ FetchTrades(TRUE, NULL)

SignOut == tradeList # <<>> /\ \E signedOut \in BOOLEAN : handleSignOut(signedOut)

NextRemote == LoadTrades \/ SignOut

\* the store holds any rows when the dashboard opens
InitRemote ==
  /\ tradeList = <<>>
  /\ derived = deriveTrades(tradeList)
  /\ summary = computeSummary(derived)
  /\ formError = ""
  /\ importStatus = NULL
  /\ dataSource = "supabase"
  /\ store \in RemoteData
  /\ remoteCalls = <<>>
  /\ InitAuth /\ InitSetup /\ InitCsv /\ timeZone = UTC

SpecRemote == InitRemote /\ [][NextRemote]_vars

(* ---------------------------------------------------------------------- *)
(* Specification SpecImport: CSV files imported into the local list or     *)
(* the remote store                                                        *)
(* ---------------------------------------------------------------------- *)
InitImport ==
  /\ tradeList = <<>>
  /\ derived = deriveTrades(tradeList)
  /\ summary = computeSummary(derived)
  /\ formError = ""
  /\ importStatus = NULL
  /\ dataSource \in {"local", "supabase"}
  /\ store = <<>>
  /\ remoteCalls = <<>>
  /\ session = IF dataSource = "supabase" THEN Just(UserA) ELSE NULL
  /\ lastUserId = session
  /\ inFlight = <<>>
  /\ InitSetup /\ InitCsv /\ timeZone = UTC

\* the files offered in a state: the list and the file together stay
\* within MaxImportTrades, a file sent to the store within
\* MaxRemoteImportRows
CanImport(picks) ==
  /\ Len(tradeList) + Len(picks) <= MaxImportTrades
  /\ dataSource = "supabase" => Len(picks) <= MaxRemoteImportRows

\* the request that can fail: none in local mode, the delete only when
\* "replace" is checked
CanFail(failing, replaceOnImport) ==
  /\ dataSource = "local" => failing = "none"
  /\ failing = "delete" => replaceOnImport

\* a file with a header line
ImportFile ==
  \E layout \in 1..Len(Layouts), picks \in Picks(ImportLines, MaxImportRows),
     replaceOnImport \in BOOLEAN, importStamp \in Clock,
     failing \in Failures :
    /\ CanImport(picks)
    /\ CanFail(failing, replaceOnImport)
    /\ handleImportFile(TextOf(Layouts[layout], Picked(ImportLines, picks)),
                        replaceOnImport, importStamp, failing)

\* an empty file, or one of blank lines only
ImportEmptyFile ==
  \E text \in {<<>>, <<BlankLine>>}, replaceOnImport \in BOOLEAN :
    \E importStamp \in Clock :
      handleImportFile(text, replaceOnImport, importStamp, "none")

NextImport == ImportFile \/ ImportEmptyFile \/ ClearAll

SpecImport == InitImport /\ [][NextImport]_vars

(* ---------------------------------------------------------------------- *)
(* Specification SpecImportColumns: files of two data lines, one of them   *)
(* with nothing in one of the required columns                             *)
(* ---------------------------------------------------------------------- *)
\* the file of SecondLine and BaseLine, BaseLine first or last and with
\* nothing in the given column (column 0: with every value)
ColumnText(column, first) ==
  LET line == IF column = 0 THEN BaseLine ELSE Without(BaseLine, column)
  IN  <<HeaderLine>>
        \o (IF first THEN <<line, SecondLine>> ELSE <<SecondLine, line>>)

ImportColumnFile ==
  \E column \in 0..Len(REQUIRED_HEADERS), first \in BOOLEAN,
     replaceOnImport \in BOOLEAN, importStamp \in Clock :
    \E text \in {ColumnText(column, first)} :
      /\ Len(tradeList) + Len(text) - 1 <= MaxColumnTrades
      /\ handleImportFile(text, replaceOnImport, importStamp, "none")

NextImportColumns == ImportColumnFile \/ ClearAll

SpecImportColumns == Init /\ [][NextImportColumns]_vars

(* ---------------------------------------------------------------------- *)
(* Specification SpecDuration: trades on the days the clock changes, in a  *)
(* browser with and in one without daylight saving time                    *)
(* ---------------------------------------------------------------------- *)
MaxDurationTrades == 1

SpringForward == <<2026, 3, 8>>
FallBack == <<2026, 11, 1>>

\* times before, in and after the hour that is skipped or repeated
DurationTimes == {<<0, 30>>, <<1, 30>>, <<2, 45>>, <<3, 15>>, Time1}

DurationForms ==
  { [BaseForm EXCEPT !.date = date, !.entryTime = entryTime,
                     !.exitTime = exitTime] :
      date \in {Date1, SpringForward, FallBack},
      entryTime \in DurationTimes, exitTime \in DurationTimes }

InitDuration ==
  /\ tradeList = <<>>
  /\ derived = deriveTrades(tradeList)
  /\ summary = computeSummary(derived)
  /\ formError = ""
  /\ importStatus = NULL
  /\ dataSource = "local"
  /\ store = <<>>
  /\ remoteCalls = <<>>
  /\ InitAuth /\ InitSetup /\ InitCsv
  /\ timeZone \in {UTC, NEW_YORK}

AddTimedTrade ==
  /\ Len(tradeList) < MaxDurationTrades
  /\ \E f \in DurationForms : handleSubmit(f)

NextDuration == AddTimedTrade \/ ClearAll

SpecDuration == InitDuration /\ [][NextDuration]_vars

(* ====================================================================== *)
(* Properties                                                              *)
(* ====================================================================== *)
Flip(direction) == IF direction = "Long" THEN "Short" ELSE "Long"

Indexes(s) == 1..Len(s)

\* the largest / smallest member of a non-empty finite set of numbers
Largest(S) == CHOOSE m \in S : \A x \in S : x <= m
Smallest(S) == CHOOSE m \in S : \A x \in S : m <= x

\* the running peak of the curve at point i, the peak starting at 0
PeakUpTo(curve, i) == Largest({0} \cup {curve[k].equity : k \in 1..i})

RECURSIVE OrderedSum(_, _, _)
\* the rounded left-to-right sum of the members of s that have the sign of
\* sign (+1 or -1)
OrderedSum(s, sign, i) ==
  IF i = 0 THEN 0
  ELSE IF s[i] * sign > 0 THEN FAdd(OrderedSum(s, sign, i - 1), s[i])
       ELSE OrderedSum(s, sign, i - 1)

\* C1: every derived trade has pl = (exitPrice - entryPrice) * sizeQty * m,
\* m = +1 for Long and -1 for Short, and two trades of the list that differ
\* in nothing but the direction have pl values that are negatives of each
\* other.
C1_DirectionSignsPl ==
  /\ Len(derived) = Len(tradeList)
  /\ \A i \in Indexes(tradeList) :
       LET t    == tradeList[i]
           move == FMul(FSub(t.exitPrice, t.entryPrice), t.sizeQty)
       IN  derived[i].pl = IF t.direction = "Long" THEN move ELSE -move
  /\ \A i, j \in Indexes(tradeList) :
       tradeList[i] = [tradeList[j] EXCEPT !.direction = Flip(@)]
         => derived[i].pl = -derived[j].pl

\* a Long and a Short trade, otherwise identical, with a non-zero result
C1_Witness ==
  \E i, j \in Indexes(derived) :
    /\ tradeList[i] = [tradeList[j] EXCEPT !.direction = Flip(@)]
    /\ derived[i].pl > 0
    /\ derived[j].pl < 0

\* C2: winLoss is "Win" iff pl > 0, "Loss" iff pl < 0, "BE" iff pl = 0
\* exactly, and it is one of the three.
C2_WinLossIsSignOfPl ==
  \A i \in Indexes(derived) :
    /\ derived[i].winLoss \in {"Win", "Loss", "BE"}
    /\ derived[i].winLoss = "Win" <=> derived[i].pl > 0
    /\ derived[i].winLoss = "Loss" <=> derived[i].pl < 0
    /\ derived[i].winLoss = "BE" <=> derived[i].pl = 0

\* a journal holding a win, a loss and a breakeven trade
C2_Witness ==
  \E i, j, k \in Indexes(derived) :
    /\ derived[i].winLoss = "Win"
    /\ derived[j].winLoss = "Loss"
    /\ derived[k].winLoss = "BE"

\* C3: deriveTrades returns as many trades as it was given, and output i
\* carries every field of input i unchanged.
C3_DeriveKeepsOrderAndFields ==
  /\ Len(derived) = Len(tradeList)
  /\ \A i \in Indexes(tradeList) :
       \A k \in DOMAIN tradeList[i] :
         /\ k \in DOMAIN derived[i]
         /\ derived[i][k] = tradeList[i][k]

\* a journal of at least two different trades
C3_Witness ==
  /\ Len(derived) >= 2
  /\ tradeList[1] # tradeList[2]
  /\ derived[1].pl # derived[2].pl

\* C4: riskReward = reward / risk and rMultiple = pl / risk when risk > 0,
\* both are null when risk is not > 0, and rr is riskReward.
C4_RatiosOrNull ==
  \A i \in Indexes(derived) :
    LET d == derived[i]
    IN  /\ d.risk > 0 => /\ d.riskReward = Just(FDiv(d.reward, d.risk))
                         /\ d.rMultiple = Just(FDiv(d.pl, d.risk))
        /\ ~(d.risk > 0) => /\ d.riskReward = NULL
                            /\ d.rMultiple = NULL
        /\ d.rr = d.riskReward

\* a journal with a trade whose ratios are defined and one with zero risk
C4_Witness ==
  \E i, j \in Indexes(derived) :
    /\ derived[i].risk > 0
    /\ derived[i].riskReward # NULL
    /\ derived[j].risk = 0
    /\ derived[j].riskReward = NULL

\* C5: for every trade the entry form admits, risk and reward are the
\* absolute price distances times the quantity and are never negative.
C5_RiskRewardNonNegative ==
  \A i \in Indexes(derived) :
    LET t == tradeList[i]
    IN  /\ derived[i].risk
             = FMul(Abs(FSub(t.entryPrice, t.stopLoss)), t.sizeQty)
        /\ derived[i].reward
             = FMul(Abs(FSub(t.targetPrice, t.entryPrice)), t.sizeQty)
        /\ derived[i].risk >= 0
        /\ derived[i].reward >= 0

\* C6: for a non-empty journal the equity curve has one point per trade and
\* its last equity equals totalPl.
C6_LastEquityIsTotalPl ==
  tradeList # <<>> =>
    /\ Len(summary.equityCurve) = Len(tradeList)
    /\ summary.equityCurve[Len(summary.equityCurve)].equity = summary.totalPl

\* C7: drawdownSeries has one value per curve point, each is the equity
\* minus the running peak (the peak starting at 0) and is <= 0, and
\* maxDrawdown is the least of them, or 0 when none is negative.
C7_DrawdownSeries ==
  LET curve == summary.equityCurve
      dd    == summary.drawdownSeries
  IN  /\ Len(dd) = Len(curve)
      /\ \A i \in Indexes(curve) :
           /\ dd[i] = FSub(curve[i].equity, PeakUpTo(curve, i))
           /\ dd[i] <= 0
      /\ summary.maxDrawdown = Smallest({0} \cup {dd[i] : i \in Indexes(dd)})

\* a curve whose first point is already negative, that then makes a new
\* peak and falls below it
C7_Witness ==
  LET dd == summary.drawdownSeries
  IN  /\ Len(dd) = 3
      /\ summary.equityCurve[1].equity < 0
      /\ dd[1] < 0
      /\ dd[2] = 0
      /\ dd[3] < 0

\* C8: when the curve falls below its running peak, maxDrawdownPct is
\* maxDrawdown divided by the running peak at the first point where the
\* maximum drawdown occurs, and null if that peak is 0; when the curve never
\* falls below its peak it is null.  It is never a division by a zero peak.
C8_MaxDrawdownPct ==
  LET curve == summary.equityCurve
      dd    == summary.drawdownSeries
      md    == summary.maxDrawdown
  IN  IF md < 0
      THEN LET at   == Smallest({i \in Indexes(dd) : dd[i] = md})
               peak == PeakUpTo(curve, at)
           IN  summary.maxDrawdownPct
                 = IF peak = 0 THEN NULL ELSE Just(FDiv(md, peak))
      ELSE summary.maxDrawdownPct = NULL

\* a win followed by a larger loss: the drawdown is measured against the
\* peak the win made
C8_Witness ==
  /\ Len(summary.equityCurve) >= 2
  /\ summary.equityCurve[1].equity > 0
  /\ summary.drawdownSeries[2] < 0
  /\ summary.maxDrawdown = summary.drawdownSeries[2]
  /\ summary.maxDrawdownPct
       = Just(FDiv(summary.maxDrawdown, summary.equityCurve[1].equity))

\* C9: when every trade has risk = 0, avgRR and expectancyR are null;
\* profitFactor is null when no trade loses, and otherwise is the sum of
\* the positive pl divided by the magnitude of the sum of the negative pl.
C9_NullPropagation ==
  LET pls == [i \in Indexes(derived) |-> derived[i].pl]
  IN  /\ (\A i \in Indexes(derived) : derived[i].risk = 0)
           => /\ summary.avgRR = NULL
              /\ summary.expectancyR = NULL
      /\ (\A i \in Indexes(derived) : ~(pls[i] < 0))
           => summary.profitFactor = NULL
      /\ (\E i \in Indexes(derived) : pls[i] < 0)
           => summary.profitFactor
                = Just(FDiv(OrderedSum(pls, 1, Len(pls)),
                            Abs(OrderedSum(pls, -1, Len(pls)))))

\* a journal of a winner and a loser, both with the stop at the entry
C9_Witness ==
  /\ derived # <<>>
  /\ \A i \in Indexes(derived) : derived[i].risk = 0
  /\ \E i, j \in Indexes(derived) : derived[i].pl > 0 /\ derived[j].pl < 0
  /\ summary.avgRR = NULL
  /\ summary.profitFactor # NULL

EmptySummary ==
  [ totalTrades    |-> 0,
    wins           |-> 0,
    losses         |-> 0,
    breakeven      |-> 0,
    winRate        |-> 0,
    totalPl        |-> 0,
    avgPl          |-> 0,
    avgWin         |-> 0,
    avgLoss        |-> 0,
    profitFactor   |-> NULL,
    expectancy     |-> 0,
    expectancyR    |-> NULL,
    avgRR          |-> NULL,
    equityCurve    |-> <<>>,
    drawdownSeries |-> <<>>,
    maxDrawdown    |-> 0,
    maxDrawdownPct |-> NULL,
    maxProfitTrade |-> 0,
    maxLossTrade   |-> 0 ]

\* C10: on the empty trade list deriveTrades returns the empty list,
\* computeSummary returns zeros, nulls and empty series, and the breakdowns
\* and groupStats return empty lists.
C10_EmptyJournal ==
  tradeList = <<>> =>
    /\ derived = <<>>
    /\ summary = EmptySummary
    /\ dayBreakdown = <<>>
    /\ weekBreakdown = <<>>
    /\ monthBreakdown = <<>>
    /\ groupStats(derived, "StrategyKey") = <<>>
    /\ strategyStats = <<>>

\* the journal emptied again by "Clear all" (or not yet filled)
C10_Witness ==
  /\ tradeList = <<>>
  /\ summary.totalTrades = 0
  /\ summary.equityCurve = <<>>

\* the number of members of s that satisfy the test named by sign:
\* 1 for > 0, -1 for < 0, 0 for = 0
CountSign(s, sign) ==
  Cardinality({i \in Indexes(s) :
                 CASE sign = 1  -> s[i].pl > 0
                   [] sign = -1 -> s[i].pl < 0
                   [] OTHER     -> s[i].pl = 0})

\* C11: wins is the number of trades with pl > 0, losses the number with
\* pl < 0, breakeven = totalTrades - wins - losses is the number with pl = 0
\* and is >= 0, and winRate is wins / totalTrades, or 0 for no trades, so
\* that 0 <= winRate <= 1.
C11_CountsAndWinRate ==
  /\ summary.totalTrades = Len(derived)
  /\ summary.wins = CountSign(derived, 1)
  /\ summary.losses = CountSign(derived, -1)
  /\ summary.breakeven = summary.totalTrades - summary.wins - summary.losses
  /\ summary.breakeven = CountSign(derived, 0)
  /\ summary.breakeven >= 0
  /\ summary.winRate = IF summary.totalTrades > 0
                       THEN FDiv(FNum(summary.wins), FNum(summary.totalTrades))
                       ELSE 0
  /\ 0 <= summary.winRate
  /\ summary.winRate <= FNum(1)

\* a journal of three trades, one won, one lost and one breakeven, with a
\* win rate strictly between 0 and 1
C11_Witness ==
  /\ summary.totalTrades = 3
  /\ summary.wins = 1
  /\ summary.losses = 1
  /\ summary.breakeven = 1
  /\ 0 < summary.winRate
  /\ summary.winRate < FNum(1)

ExitsBefore(a, b) ==
  \/ TupleLess(a.date, b.date)
  \/ a.date = b.date /\ TupleLess(a.exitTime, b.exitTime)

\* the place of trades[k] when the trades are put in ascending order of
\* date and exit time, trades of the same date and exit time keeping their
\* order in the list
PlaceOf(trades, k) ==
  1 + Cardinality({j \in Indexes(trades) :
                     \/ ExitsBefore(trades[j], trades[k])
                     \/ /\ j < k
                        /\ trades[j].date = trades[k].date
                        /\ trades[j].exitTime = trades[k].exitTime})

\* C13: the equity curve takes the trades in ascending order of date and,
\* within a date, of exit time; point i carries the date of the i-th trade
\* in that order and the running sum of pl of the first i trades, starting
\* from 0.
C13_EquityCurveOrder ==
  LET curve == summary.equityCurve
  IN  /\ Len(curve) = Len(derived)
      /\ \A k \in Indexes(derived) :
           LET i == PlaceOf(derived, k)
           IN  /\ curve[i].date = derived[k].date
               /\ curve[i].equity
                    = FAdd(IF i = 1 THEN 0 ELSE curve[i - 1].equity,
                           derived[k].pl)
      /\ \A i, j \in Indexes(curve) :
           i < j => ~TupleLess(curve[j].date, curve[i].date)

\* three trades listed against their exit order: the first listed exited
\* late on the Monday, the second early on the same Monday and the third
\* late on the Sunday before, with different results
C13_Witness ==
  /\ Len(derived) = 3
  /\ derived[1].date = derived[2].date
  /\ TupleLess(derived[2].exitTime, derived[1].exitTime)
  /\ TupleLess(derived[3].date, derived[2].date)
  /\ TupleLess(derived[2].exitTime, derived[3].exitTime)
  /\ derived[1].pl # derived[2].pl
  /\ PlaceOf(derived, 1) = 3
  /\ PlaceOf(derived, 3) = 1

RECURSIVE KeySum(_, _, _, _)
\* the rounded left-to-right sum of pl of the first n trades whose key is
\* label
KeySum(trades, keyFn, label, n) ==
  IF n = 0 THEN 0
  ELSE IF KeyOf(keyFn, trades[n]) = label
       THEN FAdd(KeySum(trades, keyFn, label, n - 1), trades[n].pl)
       ELSE KeySum(trades, keyFn, label, n - 1)

\* rows has one row per key that some trade has, in strictly ascending
\* order of label, each carrying the sum of pl of the trades with that key
RowsPerKey(rows, trades, keyFn) ==
  /\ {rows[i].label : i \in Indexes(rows)}
       = {KeyOf(keyFn, trades[k]) : k \in Indexes(trades)}
  /\ \A i, j \in Indexes(rows) :
       i < j => TupleLess(rows[i].label, rows[j].label)
  /\ \A i \in Indexes(rows) :
       rows[i].value = KeySum(trades, keyFn, rows[i].label, Len(trades))

RECURSIVE RowTotal(_, _)
\* the rounded left-to-right sum of the values of the first n rows
RowTotal(rows, n) ==
  IF n = 0 THEN 0 ELSE FAdd(RowTotal(rows, n - 1), rows[n].value)

\* C14 as stated: the day, week and month breakdowns have one row per key
\* in use, labels strictly ascending, each value the sum of pl of the key's
\* trades, and the values of the rows sum to the total pl.
C14_RowsSumToTotalPl ==
  LET days   == dayBreakdown
      weeks  == weekBreakdown
      months == monthBreakdown
  IN  /\ RowsPerKey(days, derived, "DayKey")
      /\ RowsPerKey(weeks, derived, "WeekKey")
      /\ RowsPerKey(months, derived, "MonthKey")
      /\ RowTotal(days, Len(days)) = summary.totalPl
      /\ RowTotal(weeks, Len(weeks)) = summary.totalPl
      /\ RowTotal(months, Len(months)) = summary.totalPl

\* C14, amended: the day, week and month breakdowns have one row per key in
\* use, labels pairwise distinct and strictly ascending, and each value is
\* the sum, taken in list order, of pl of exactly the trades with that key.
C14_BreakdownRows ==
  /\ RowsPerKey(dayBreakdown, derived, "DayKey")
  /\ RowsPerKey(weekBreakdown, derived, "WeekKey")
  /\ RowsPerKey(monthBreakdown, derived, "MonthKey")

\* three trades on three days of two weeks and two months, listed against
\* the order of their dates
C14_Witness ==
  /\ Len(derived) = 3
  /\ Len(dayBreakdown) = 3
  /\ Len(weekBreakdown) = 2
  /\ Len(monthBreakdown) = 2
  /\ weekBreakdown[1].label = <<2026, 0, 1>>
  /\ monthBreakdown[1].label = <<2025, 12>>
  /\ monthBreakdown[2].value = FAdd(derived[1].pl, derived[3].pl)
  /\ TupleLess(derived[3].date, derived[2].date)

\* the day number of the Monday of the Monday-to-Sunday week of the date
\* (day 0, 1970-01-01, was a Thursday)
MondayOf(date) ==
  LET n == DaysFromCivil(date) IN n - ((n + 3) % 7)

\* ISO 8601: the week belongs to the year its Thursday falls in, and week 1
\* is the week of the first Thursday of that year
IsoWeekOf(date) ==
  LET thursday == MondayOf(date) + 3
      year     == YearOfDays(thursday)
      earlier  == {t \in DaysFromCivil(<<year, 1, 1>>)..(thursday - 1) :
                     (t - thursday) % 7 = 0}
  IN  [year |-> year, week |-> 1 + Cardinality(earlier)]

\* the label `{isoYear}-W{week:02d}` of a year and a week
WeekLabel(w) == <<w.year, w.week \div 10, w.week % 10>>

\* C15: the week key of every trade is the ISO 8601 week of its date, with
\* the year of the Thursday of the date's week and a week number from 1 to
\* 53; two dates of one Monday-to-Sunday week get the same key, and dates
\* of consecutive weeks get consecutive keys, week 1 of the next year
\* following week 52 or 53.
C15_IsoWeek ==
  /\ \A k \in Indexes(derived) :
       LET w == IsoWeekOf(derived[k].date)
       IN  /\ w.week >= 1
           /\ w.week <= 53
           /\ getISOWeek(derived[k].date) = w
           /\ \E i \in Indexes(weekBreakdown) :
                weekBreakdown[i].label = WeekLabel(w)
  /\ \A i \in Indexes(weekBreakdown) :
       \E k \in Indexes(derived) :
         weekBreakdown[i].label = WeekLabel(IsoWeekOf(derived[k].date))
  /\ \A j, k \in Indexes(derived) :
       LET wj == getISOWeek(derived[j].date)
           wk == getISOWeek(derived[k].date)
       IN  /\ MondayOf(derived[j].date) = MondayOf(derived[k].date)
                => wj = wk
           /\ MondayOf(derived[k].date) = MondayOf(derived[j].date) + 7
                => \/ wk.year = wj.year /\ wk.week = wj.week + 1
                   \/ /\ wk.year = wj.year + 1
                      /\ wk.week = 1
                      /\ wj.week \in {52, 53}

\* a Sunday in January that still belongs to week 53 of the year before,
\* listed with the Monday after it, the first day of week 1
C15_Witness ==
  /\ Len(derived) = 2
  /\ derived[1].date = <<2027, 1, 4>>
  /\ derived[2].date = <<2027, 1, 3>>
  /\ weekBreakdown[1].label = <<2026, 5, 3>>
  /\ weekBreakdown[2].label = <<2027, 0, 1>>

\* the trades of one weekday, in list order
TradesOfDay(trades, day) == SelectSeq(trades, LAMBDA t : t.day = day)

\* the place of a weekday in the week that runs from Monday to Sunday
PlaceInWeek(day) ==
  CASE day = "Mon" -> 1 [] day = "Tue" -> 2 [] day = "Wed" -> 3
    [] day = "Thu" -> 4 [] day = "Fri" -> 5 [] day = "Sat" -> 6
    [] day = "Sun" -> 7

\* one row per weekday that has a trade, in the order Monday to Sunday
OneRowPerWeekday(rows) ==
  /\ {rows[i].day : i \in Indexes(rows)}
       = {derived[k].day : k \in Indexes(derived)}
  /\ \A k \in Indexes(derived) :
       derived[k].day = DAY_NAMES[GetDay(derived[k].date) + 1]
  /\ \A i, j \in Indexes(rows) :
       i < j => PlaceInWeek(rows[i].day) < PlaceInWeek(rows[j].day)

GroupNameOf(trade, keyFn) ==
  IF KeyOf(keyFn, trade) = "" THEN "Unspecified" ELSE KeyOf(keyFn, trade)

\* the trades whose group has the given name, in list order
TradesOfGroup(trades, keyFn, name) ==
  SelectSeq(trades, LAMBDA t : GroupNameOf(t, keyFn) = name)

RECURSIVE GroupTotal(_, _)
\* the rounded left-to-right sum of totalPl of the first n groups
GroupTotal(stats, n) ==
  IF n = 0 THEN 0 ELSE FAdd(GroupTotal(stats, n - 1), stats[n].totalPl)

\* the exact sum of the trade counts of the groups
RECURSIVE GroupCount(_, _)
GroupCount(stats, n) ==
  IF n = 0 THEN 0 ELSE GroupCount(stats, n - 1) + stats[n].trades

\* stats is the partition of trades by keyFn: group names are pairwise
\* distinct and are exactly the names of the trades' groups, no group is
\* empty, the counts add up to the number of trades, and every group's
\* statistics are those of computeSummary on exactly its trades
PartitionStats(stats, trades, keyFn) ==
  /\ {stats[i].name : i \in Indexes(stats)}
       = {GroupNameOf(trades[k], keyFn) : k \in Indexes(trades)}
  /\ \A i, j \in Indexes(stats) : stats[i].name = stats[j].name => i = j
  /\ GroupCount(stats, Len(stats)) = Len(trades)
  /\ \A i \in Indexes(stats) :
       LET s == computeSummary(TradesOfGroup(trades, keyFn, stats[i].name))
       IN  /\ stats[i].trades >= 1
           /\ stats[i].trades = s.totalTrades
           /\ stats[i].winRate = s.winRate
           /\ stats[i].totalPl = s.totalPl
           /\ stats[i].avgPl = s.avgPl
           /\ stats[i].avgRR = s.avgRR
           /\ stats[i].expectancyR = s.expectancyR
           /\ stats[i].profitFactor = s.profitFactor

\* C17 as stated: groupStats by strategy is the partition of the derived
\* trades, and the groups' totalPl values sum to the overall totalPl.
C17_GroupTotalsSumToTotalPl ==
  LET stats == groupStats(derived, "StrategyKey")
  IN  /\ PartitionStats(stats, derived, "StrategyKey")
      /\ GroupTotal(stats, Len(stats)) = summary.totalPl

\* C17, amended: groupStats by strategy is the partition of the derived
\* trades: every trade is in exactly one group, named by its key or
\* "Unspecified" when the key is empty, no group is empty, the counts sum
\* to the number of trades, and each group's statistics are computeSummary
\* of exactly its trades.
C17_GroupStatsPartition ==
  PartitionStats(groupStats(derived, "StrategyKey"), derived, "StrategyKey")

\* a tagged trade, a trade whose strategy is empty and one whose strategy
\* is spelled "Unspecified": two groups, the second of two trades
C17_Witness ==
  LET stats == groupStats(derived, "StrategyKey")
  IN  /\ Len(derived) = 3
      /\ derived[1].strategy = "Breakout"
      /\ derived[2].strategy = ""
      /\ derived[3].strategy = "Unspecified"
      /\ Len(stats) = 2
      /\ stats[2].name = "Unspecified"
      /\ stats[2].trades = 2

(* ---------------------------------------------------------------------- *)
(* CSV import                                                              *)
(* ---------------------------------------------------------------------- *)
\* the letters and digits of a name, the letters in upper case
LettersAndDigits(name) ==
  LET kept == { i \in 1..Len(name) : toLowerCase(name[i]) \in LowerAlnum }
      nth(k) == CHOOSE i \in kept : Cardinality({j \in kept : j <= i}) = k
  IN  [k \in 1..Cardinality(kept) |-> toUpperCase(name[nth(k)])]

\* no column of the header line carries the required name
Lacks(headerLine, required) ==
  \A i \in 1..Len(headerLine) :
     LettersAndDigits(headerLine[i].val) # LettersAndDigits(required)

RECURSIVE LackedHeaders(_, _)
\* the first n required headers that the header line lacks, in their order
LackedHeaders(headerLine, n) ==
  IF n = 0 THEN <<>>
  ELSE IF Lacks(headerLine, REQUIRED_HEADERS[n])
       THEN Append(LackedHeaders(headerLine, n - 1), REQUIRED_HEADERS[n])
       ELSE LackedHeaders(headerLine, n - 1)

\* C18: an import whose header line lacks a required header shows
\* "Missing headers: " with exactly the lacked headers, does not set the
\* trade list, leaves the store as it is and sends it no request, whatever
\* the data lines of the file, the "replace" box and the data source; a
\* state that shows this status was reached without a request.
C18_MissingHeaderAborts ==
  /\ \A layout \in 1..Len(Layouts) :
       \A lacked \in {LackedHeaders(TextOf(Layouts[layout], <<>>)[1],
                                    Len(REQUIRED_HEADERS))} :
         lacked # <<>> =>
           \A picks \in {p \in Picks(ImportLines, MaxImportRows) :
                           CanImport(p)},
              replaceOnImport \in BOOLEAN, importStamp \in Clock :
             \A failing \in {f \in Failures : CanFail(f, replaceOnImport)} :
             \A o \in {importOutcome(TextOf(Layouts[layout],
                                            Picked(ImportLines, picks)),
                                     replaceOnImport, importStamp, failing)} :
               /\ o.importStatus = MissingHeadersStatus(lacked)
               /\ o.tradeList = NULL
               /\ o.store = store
               /\ o.remoteCalls = <<>>
  /\ \A status \in {importStatus[i] : i \in 1..Len(importStatus)} :
       status.text = "Missing headers: " => remoteCalls = <<>>

\* a file without the Strategy and Platform columns was refused in remote
\* mode with trades listed and stored
C18_Witness ==
  /\ importStatus = MissingHeadersStatus(<<STRATEGY, PLATFORM>>)
  /\ dataSource = "supabase"
  /\ tradeList # <<>>
  /\ store # <<>>
  /\ remoteCalls = <<>>

\* the trades that BaseLine and SecondLine spell out
BaseTrade ==
  [ tradeId     |-> "T-1",
    date        |-> Date1,
    instrument  |-> "Nifty",
    market      |-> "Futures",
    entryTime   |-> Time1,
    exitTime    |-> Time2,
    strategy    |-> "Breakout",
    direction   |-> "Short",
    sizeQty     |-> One,
    entryPrice  |-> 0,
    exitPrice   |-> Big,
    stopLoss    |-> One,
    targetPrice |-> Big,
    exitReason  |-> "Target",
    platform    |-> "Mobile" ]

SecondTrade ==
  [ tradeId     |-> "T-2",
    date        |-> Date2,
    instrument  |-> "Nifty",
    market      |-> "Equity",
    entryTime   |-> Time1,
    exitTime    |-> Time3,
    strategy    |-> "Breakout",
    direction   |-> "Long",
    sizeQty     |-> Big,
    entryPrice  |-> 0,
    exitPrice   |-> One,
    stopLoss    |-> One,
    targetPrice |-> Big,
    exitReason  |-> "Manual",
    platform    |-> "Web" ]

\* where a line stands in ImportLines
PickOf(line) == CHOOSE i \in 1..Len(ImportLines) : ImportLines[i] = line

BasePick == PickOf(BaseLine)
SecondPick == PickOf(SecondLine)
NoEntryPricePick == PickOf(Without(BaseLine, 10))
BlankPick == PickOf(BlankLine)

RECURSIVE ValidTrades(_, _)
\* the trades of the valid lines among the first n picked, in file order
ValidTrades(picks, n) ==
  IF n = 0 THEN <<>>
  ELSE IF picks[n] = BasePick
       THEN Append(ValidTrades(picks, n - 1), BaseTrade)
  ELSE IF picks[n] = SecondPick
       THEN Append(ValidTrades(picks, n - 1), SecondTrade)
  ELSE ValidTrades(picks, n - 1)

\* how many of the picked lines are the given one, or are not
CountPicked(picks, pick) == Cardinality({i \in 1..Len(picks) : picks[i] = pick})
CountNotPicked(picks, pick) ==
  Cardinality({i \in 1..Len(picks) : picks[i] # pick})

\* C20: an import of a file with complete headers in which some line has no
\* entry price keeps, in file order, exactly the trades of the valid lines,
\* skips the lines without an entry price, and has imported + skipped equal
\* to the number of non-blank data lines; in local mode, when a valid line
\* remains, it shows "Imported n trade(s), skipped k." and puts the
\* imported trades, in file order, in front of the list (or in its place
\* when "replace" is checked).
C20_SkipsRowAndImportsRest ==
  \A picks \in {p \in Picks(ImportLines, MaxImportRows) : CanImport(p)},
     replaceOnImport \in BOOLEAN, importStamp \in Clock :
    CountPicked(picks, NoEntryPricePick) > 0 =>
      \A valid \in {ValidTrades(picks, Len(picks))},
         o \in {importOutcome(TextOf(Layouts[1], Picked(ImportLines, picks)),
                              replaceOnImport, importStamp, "none")} :
        /\ o.skipped = CountPicked(picks, NoEntryPricePick)
        /\ Len(valid) + o.skipped = CountNotPicked(picks, BlankPick)
        /\ valid = <<>> => o.imported = <<>> /\ o.tradeList = NULL
        /\ valid # <<>> =>
             /\ o.imported = valid
             /\ dataSource = "local" =>
                  /\ o.importStatus = ImportedStatus(Len(valid), o.skipped)
                  /\ o.tradeList = Just(IF replaceOnImport THEN valid
                                        ELSE valid \o tradeList)

\* a file of the second trade, a line without entry price and the first
\* trade was imported
C20_Witness ==
  /\ dataSource = "local"
  /\ importStatus = ImportedStatus(2, 1)
  /\ tradeList = <<SecondTrade, BaseTrade>>

\* C19: a data row with nothing in one of the fifteen required columns is
\* skipped and not added to the trade list: after imports of files whose
\* other lines are BaseLine and SecondLine with every value, the list holds
\* only the trades of those two lines.
C19_RowsMissingAValueNotListed ==
  \A i \in 1..Len(tradeList) : tradeList[i] \in {BaseTrade, SecondTrade}

(* ---------------------------------------------------------------------- *)
(* C25: the duration of a trade                                            *)
(* ---------------------------------------------------------------------- *)
\* the minutes from one time of day to a later one, 0 to an earlier one
ClockMinutes(entryTime, exitTime) ==
  IF MinutesOf(exitTime) >= MinutesOf(entryTime)
  THEN MinutesOf(exitTime) - MinutesOf(entryTime) ELSE 0

\* the browser's clock is not changed on that date
NoClockChange(date) ==
  UtcOffset(timeZone, date, 0) = UtcOffset(timeZone, date, 1439)

QUOTE == "\""
COMMA == ","
LF == "\n"
CR == "\r"

\* raw.replace(/"/g, '""')
RECURSIVE DoubleQuotes(_)
DoubleQuotes(raw) ==
  IF raw = <<>> THEN <<>>
  ELSE (IF Head(raw) = QUOTE THEN <<QUOTE, QUOTE>> ELSE <<Head(raw)>>)
         \o DoubleQuotes(Tail(raw))

\* toCsvValue of a text
toCsvValue(raw) ==
  IF \E i \in 1..Len(raw) : raw[i] \in {QUOTE, COMMA, LF}
  THEN <<QUOTE>> \o DoubleQuotes(raw) \o <<QUOTE>>
  ELSE raw

\* fields.map((value) => toCsvValue(value)).join(",")
RECURSIVE csvLine(_)
csvLine(fields) ==
  IF fields = <<>> THEN <<>>
  ELSE IF Len(fields) = 1 THEN toCsvValue(fields[1])
  ELSE toCsvValue(Head(fields)) \o <<COMMA>> \o csvLine(Tail(fields))

\* value.trim() === "" for a text of these characters
IsBlankText(value) == \A i \in 1..Len(value) : value[i] \in {" ", LF, CR}

\* rows after "if (row.some((value) => value.trim() !== "")) rows.push(row)"
PushRow(rows, row) ==
  IF \E i \in 1..Len(row) : ~IsBlankText(row[i]) THEN Append(rows, row)
  ELSE rows

\* parseCsv from the i-th character on, with the rows, the row, the field
\* and the quoting state reached so far
RECURSIVE parseCsvFrom(_, _, _, _, _, _)
parseCsvFrom(text, i, rows, row, current, inQuotes) ==
  IF i > Len(text)
  THEN IF Len(current) > 0 \/ Len(row) > 0
       THEN PushRow(rows, Append(row, current))
       ELSE rows
  ELSE
    LET char    == text[i]
        hasNext == i + 1 <= Len(text)
    IN  IF char = QUOTE
        THEN IF inQuotes /\ hasNext /\ text[i + 1] = QUOTE
             THEN parseCsvFrom(text, i + 2, rows, row,
                               Append(current, QUOTE), inQuotes)
             ELSE parseCsvFrom(text, i + 1, rows, row, current, ~inQuotes)
        ELSE IF char = COMMA /\ ~inQuotes
        THEN parseCsvFrom(text, i + 1, rows, Append(row, current), <<>>,
                          inQuotes)
        ELSE IF char \in {LF, CR} /\ ~inQuotes
        THEN parseCsvFrom(text,
                          IF char = CR /\ hasNext /\ text[i + 1] = LF
                          THEN i + 2 ELSE i + 1,
                          PushRow(rows, Append(row, current)), <<>>, <<>>,
                          inQuotes)
        ELSE parseCsvFrom(text, i + 1, rows, row, Append(current, char),
                          inQuotes)

parseCsv(text) == parseCsvFrom(text, 1, <<>>, <<>>, <<>>, FALSE)

\* a row of fields written as a line of CSV and read back
WriteAndRead(fields) ==
  /\ exportFields' = fields
  /\ exportLine' = csvLine(fields)
  /\ parsedRows' = parseCsv(exportLine')
  /\ UNCHANGED <<journal, auth, setup, timeZone>>

(* ---------------------------------------------------------------------- *)
(* Specification SpecCsv: rows of fields written as CSV and read back      *)
(* ---------------------------------------------------------------------- *)
\* a row is typed as one text of at most MaxRowSize characters, in which
\* FIELD_END stands between two fields
MaxRowSize == 3

FIELD_END == "|"

CsvChars == {"a", " ", QUOTE, COMMA, LF, CR}

RowTexts ==
  UNION { [1..n -> CsvChars \cup {FIELD_END}] : n \in 0..MaxRowSize }

\* the fields of a typed row
RECURSIVE FieldsFrom(_, _, _, _)
FieldsFrom(typed, i, fields, current) ==
  IF i > Len(typed) THEN Append(fields, current)
  ELSE IF typed[i] = FIELD_END
  THEN FieldsFrom(typed, i + 1, Append(fields, current), <<>>)
  ELSE FieldsFrom(typed, i + 1, fields, Append(current, typed[i]))

FieldsOf(typed) == FieldsFrom(typed, 1, <<>>, <<>>)

WriteRow == \E typed \in RowTexts : WriteAndRead(FieldsOf(typed))

NextCsv == WriteRow

SpecCsv == Init /\ [][NextCsv]_vars

(* ---------------------------------------------------------------------- *)
(* C22: quoting, and reading back what was written                         *)
(* ---------------------------------------------------------------------- *)
HasNonBlank(fields) == \E i \in 1..Len(fields) : ~IsBlankText(fields[i])

\* a field is wrapped exactly when it holds a comma, a quote or a line
\* feed, with its quotes doubled
QuotedAsSpecified(fields) ==
  \A i \in 1..Len(fields) :
    LET raw == fields[i]
        out == toCsvValue(raw)
    IN  IF \E k \in 1..Len(raw) : raw[k] \in {QUOTE, COMMA, LF}
        THEN /\ Len(out) >= 2
             /\ out[1] = QUOTE /\ out[Len(out)] = QUOTE
             /\ SubSeq(out, 2, Len(out) - 1) = DoubleQuotes(raw)
        ELSE out = raw

\* C22 as claimed: every field with a comma, a quote or a newline is
\* wrapped in quotes with its quotes doubled and every other field is left
\* as it is, and a row with a non-blank field that is written as a line of
\* CSV and parsed comes back as exactly that one row.
C22_RoundTrip ==
  /\ QuotedAsSpecified(exportFields)
  /\ HasNonBlank(exportFields) => parsedRows = <<exportFields>>

\* a field holds a carriage return and none of the characters that get it
\* wrapped
HasBareCR(fields) ==
  \E i \in 1..Len(fields) :
    /\ \E k \in 1..Len(fields[i]) : fields[i][k] = CR
    /\ \A k \in 1..Len(fields[i]) : fields[i][k] \notin {QUOTE, COMMA, LF}

\* what holds instead: the quoting is as specified, and the row comes back
\* when no field holds a bare carriage return
C22_RoundTripWithoutBareCR ==
  /\ QuotedAsSpecified(exportFields)
  /\ HasNonBlank(exportFields) /\ ~HasBareCR(exportFields)
       => parsedRows = <<exportFields>>

(* ---------------------------------------------------------------------- *)
(* The risk/reward ratio in the CSV export and in the journal              *)
(* ---------------------------------------------------------------------- *)
DigitChars == <<"0", "1", "2", "3", "4", "5", "6", "7", "8", "9">>

\* the decimal digits of a natural number
RECURSIVE DecimalDigits(_)
DecimalDigits(n) ==
  IF n < 10 THEN <<DigitChars[n + 1]>>
  ELSE Append(DecimalDigits(n \div 10), DigitChars[(n % 10) + 1])

\* value.toFixed(2): the nearest number of hundredths, the larger of two
\* equally near ones, after the sign
toFixed(value) ==
  LET hundredths == (2 * 100 * Abs(value) + Unit) \div (2 * Unit)
  IN  (IF value < 0 THEN <<"-">> ELSE <<>>)
        \o DecimalDigits(hundredths \div 100) \o <<".">>
        \o <<DigitChars[((hundredths \div 10) % 10) + 1],
             DigitChars[(hundredths % 10) + 1]>>

\* the test "value ? ... : ..." of a number or null
Truthy(value) == value # NULL /\ value[1] # 0

\* the "Risk-Reward" and the "R:R" cell of a trade's row in buildCsv
riskRewardCell(trade) ==
  toCsvValue(IF Truthy(trade.riskReward) THEN toFixed(trade.riskReward[1])
             ELSE <<>>)

rrCell(trade) ==
  toCsvValue(IF Truthy(trade.rr) THEN toFixed(trade.rr[1]) ELSE <<>>)

PLACEHOLDER == <<"--">>

\* the R:R cell of a trade in the journal; "--" stands for the dash
riskRewardLabel(trade) ==
  IF Truthy(trade.riskReward)
  THEN <<"1", ":">> \o toFixed(trade.riskReward[1])
  ELSE PLACEHOLDER

(* ---------------------------------------------------------------------- *)
(* Specification SpecExport: trades with no risk, with no reward and with  *)
(* both                                                                    *)
(* ---------------------------------------------------------------------- *)
MaxExportTrades == 2

\* entered at 1 with the stop at the entry (no risk, the ratio is null) or
\* below it, and with the target at the entry (no reward, the ratio is 0)
\* or above it
RatioForms ==
  { [BaseForm EXCEPT !.direction = dir, !.entryPrice = Txt(One),
                     !.exitPrice = Txt(ex), !.stopLoss = Txt(stop),
                     !.targetPrice = Txt(target)] :
      dir \in {"Long", "Short"}, ex \in {0, Big}, stop \in {0, One},
      target \in {One, Big} }

AddRatioTrade ==
  /\ Len(tradeList) < MaxExportTrades
  /\ \E f \in RatioForms : handleSubmit(f)

NextExport == AddRatioTrade \/ ClearAll

SpecExport == Init /\ [][NextExport]_vars

(* ---------------------------------------------------------------------- *)
(* C21: a null ratio, and only a null ratio, is shown as missing           *)
(* ---------------------------------------------------------------------- *)
\* C21: the "Risk-Reward" and "R:R" cells of the export are the ratio with
\* two decimals, or empty exactly when the ratio is null, and the R:R cell
\* of the journal is the placeholder exactly when the ratio is null, never
\* for a defined ratio such as 0.
C21_PlaceholderOnlyForNull ==
  \A i \in 1..Len(derived) :
    LET t == derived[i]
    IN  /\ riskRewardCell(t) = IF t.riskReward = NULL THEN <<>>
                               ELSE toFixed(t.riskReward[1])
        /\ rrCell(t) = IF t.rr = NULL THEN <<>> ELSE toFixed(t.rr[1])
        /\ riskRewardLabel(t) = PLACEHOLDER <=> t.riskReward = NULL

\* what holds instead: a ratio that is null or 0 is shown as missing, every
\* other ratio with two decimals
C21_PlaceholderForNullAndZero ==
  \A i \in 1..Len(derived) :
    LET t       == derived[i]
        missing == t.riskReward = NULL \/ t.riskReward = Just(0)
    IN  /\ t.rr = t.riskReward
        /\ riskRewardCell(t) = IF missing THEN <<>>
                               ELSE toFixed(t.riskReward[1])
        /\ rrCell(t) = riskRewardCell(t)
        /\ riskRewardLabel(t) = PLACEHOLDER <=> missing

(* ---------------------------------------------------------------------- *)
(* C23: the Direction of an imported line                                  *)
(* ---------------------------------------------------------------------- *)
DIRECTION_COLUMN ==
  CHOOSE i \in 1..Len(REQUIRED_HEADERS) : REQUIRED_HEADERS[i] = DIRECTION

\* the Direction cell of the line spells Long or Short
NamesDirection(line) ==
  /\ line[DIRECTION_COLUMN].kind = "chars"
  /\ line[DIRECTION_COLUMN].val
       \in {<<"L", "o", "n", "g">>, <<"S", "h", "o", "r", "t">>}

\* C23: a line whose Direction is neither Long nor Short is rejected by the
\* import: a file yields at most as many trades as it has lines whose
\* Direction cell spells Long or Short, and every trade of the list is Long
\* or Short.
C23_UnrecognisedDirectionRejected ==
  /\ \A i \in 1..Len(tradeList) : tradeList[i].direction \in {"Long", "Short"}
  /\ \A picks \in {p \in Picks(ImportLines, MaxImportRows) : CanImport(p)},
        replaceOnImport \in BOOLEAN, importStamp \in Clock :
       \A o \in {importOutcome(TextOf(Layouts[1], Picked(ImportLines, picks)),
                               replaceOnImport, importStamp, "none")} :
         Len(o.imported)
           <= Cardinality({i \in 1..Len(picks) :
                             NamesDirection(ImportLines[picks[i]])})

\* what holds instead: every trade of the list is Long or Short, because a
\* Direction that does not contain "short" is taken as Long; the line whose
\* Direction is "Buy" is imported as a Long trade
C23_UnrecognisedDirectionIsLong ==
  /\ \A i \in 1..Len(tradeList) : tradeList[i].direction \in {"Long", "Short"}
  /\ directionOf(SecondLine[DIRECTION_COLUMN]) = "Long"
  /\ \A replaceOnImport \in BOOLEAN, importStamp \in Clock :
       dataSource = "local" /\ CanImport(<<SecondPick>>) =>
         importOutcome(TextOf(Layouts[1], <<SecondLine>>), replaceOnImport,
                       importStamp, "none").imported = <<SecondTrade>>

(* ---------------------------------------------------------------------- *)
(* C27: the stored rows after an import that fails                         *)
(* ---------------------------------------------------------------------- *)
\* the status of an import that did not go through
IsFailure(status) == status = NULL \/ status[1].text # "Imported "

\* C27: in remote mode an import that ends with a failure status (no rows,
\* missing headers, no valid rows, delete failed, import failed) leaves the
\* stored rows exactly as they were before it started, also when "replace
\* existing trades" is checked.
C27_FailedImportKeepsRows ==
  dataSource = "supabase" =>
    \A layout \in 1..Len(Layouts),
       picks \in {p \in Picks(ImportLines, MaxImportRows) : CanImport(p)},
       replaceOnImport \in BOOLEAN, importStamp \in Clock :
      \A failing \in {f \in Failures : CanFail(f, replaceOnImport)} :
        \A o \in {importOutcome(TextOf(Layouts[layout],
                                       Picked(ImportLines, picks)),
                                replaceOnImport, importStamp, failing)} :
          IsFailure(o.importStatus) => o.store = store

\* what holds instead: the stored rows are kept by every failed import but
\* the one whose upsert fails after its delete went through, which leaves
\* no row at all
C27_FailedImportKeepsRowsOrNone ==
  dataSource = "supabase" =>
    \A layout \in 1..Len(Layouts),
       picks \in {p \in Picks(ImportLines, MaxImportRows) : CanImport(p)},
       replaceOnImport \in BOOLEAN, importStamp \in Clock :
      \A failing \in {f \in Failures : CanFail(f, replaceOnImport)} :
        \A o \in {importOutcome(TextOf(Layouts[layout],
                                       Picked(ImportLines, picks)),
                                replaceOnImport, importStamp, failing)} :
          IsFailure(o.importStatus) =>
            o.store = IF replaceOnImport /\ o.importStatus = IMPORT_FAILED
                      THEN <<>> ELSE store

(* ---------------------------------------------------------------------- *)
(* C24: the trade ids of the list                                          *)
(* ---------------------------------------------------------------------- *)
\* C24: in local mode no two trades of the list share a tradeId, whatever
\* was added, imported (with or without "replace") or cleared before.
C24_TradeIdsDistinct ==
  dataSource = "local" =>
    \A i, j \in 1..Len(tradeList) :
      i # j => tradeList[i].tradeId # tradeList[j].tradeId

(* ---------------------------------------------------------------------- *)
(* C28: expectancy and the average P&L                                     *)
(* ---------------------------------------------------------------------- *)
\* C28 as claimed: over one or more trades none of which is breakeven, the
\* expectancy equals the average P&L.
C28_ExpectancyIsAvgPl ==
  summary.totalTrades > 0 /\ summary.breakeven = 0 =>
    summary.expectancy = summary.avgPl

\* C28, amended: the expectancy is winRate * avgWin - (1 - winRate) * avgLoss
\* with every operation rounded; over trades that are all winners or all
\* losers it equals the average P&L exactly, over winners and losers mixed
\* it need not (it does in exact arithmetic), and with breakeven trades it
\* can differ in exact arithmetic too.
C28_Expectancy ==
  /\ summary.expectancy
       = FSub(FMul(summary.winRate, summary.avgWin),
              FMul(FSub(FNum(1), summary.winRate), summary.avgLoss))
  /\ summary.totalTrades > 0
       /\ (summary.wins = summary.totalTrades
             \/ summary.losses = summary.totalTrades)
       => summary.expectancy = summary.avgPl

\* three winners, and three losers
C28_Witness ==
  /\ summary.totalTrades = 3
  /\ summary.wins = 3 \/ summary.losses = 3
  /\ summary.expectancy = summary.avgPl
  /\ summary.avgPl # 0

(* ---------------------------------------------------------------------- *)
(* Specification SpecOrder: winners and losers of different size, at       *)
(* three exit times on two days                                            *)
(* ---------------------------------------------------------------------- *)
MaxOrderTrades == 3

\* a large winner, a small winner and a small loser, each closed at two of
\* the three times
OrderForms ==
  { [BaseForm EXCEPT !.direction = v[1], !.exitPrice = Txt(v[2]),
                     !.date = v[3], !.exitTime = v[4]] :
      v \in {<<"Long", Big, Date1, Time3>>, <<"Long", Big, Date2, Time2>>,
             <<"Long", One, Date1, Time2>>, <<"Long", One, Date2, Time2>>,
             <<"Short", One, Date1, Time2>>, <<"Short", One, Date1, Time3>>} }

AddOrderTrade ==
  /\ Len(tradeList) < MaxOrderTrades
  /\ \E f \in OrderForms : handleSubmit(f)

NextOrder == AddOrderTrade \/ ClearAll

SpecOrder == Init /\ [][NextOrder]_vars

(* ---------------------------------------------------------------------- *)
(* C29: the statistics of a list and of its permutations                   *)
(* ---------------------------------------------------------------------- *)
Orderings(n) ==
  {p \in [1..n -> 1..n] : \A i, j \in 1..n : i # j => p[i] # p[j]}

Permuted(list, p) == [i \in 1..Len(list) |-> list[p[i]]]

\* no two trades were closed on the same day at the same time
DistinctExits(trades) ==
  \A i, j \in 1..Len(trades) :
    i # j => SortKey(trades[i]) # SortKey(trades[j])

SameCounts(s, t) ==
  /\ s.totalTrades = t.totalTrades
  /\ s.wins = t.wins
  /\ s.losses = t.losses
  /\ s.breakeven = t.breakeven

SameExtremes(s, t) ==
  /\ s.maxProfitTrade = t.maxProfitTrade
  /\ s.maxLossTrade = t.maxLossTrade

SameCurve(s, t) ==
  /\ s.equityCurve = t.equityCurve
  /\ s.drawdownSeries = t.drawdownSeries
  /\ s.maxDrawdown = t.maxDrawdown
  /\ s.maxDrawdownPct = t.maxDrawdownPct

Labels(rows) == [i \in 1..Len(rows) |-> rows[i].label]

\* C29 as claimed: for every permutation of the trade list the counts,
\* totalPl, profitFactor, maxProfitTrade and maxLossTrade are those of the
\* list, with distinct (date, exitTime) pairs the equity curve, the
\* drawdown series, maxDrawdown and maxDrawdownPct are too, and the
\* breakdowns return the same rows.
C29_OrderIndependent ==
  \A p \in Orderings(Len(tradeList)) :
    \A d \in {deriveTrades(Permuted(tradeList, p))} :
      \A s \in {computeSummary(d)} :
        /\ SameCounts(s, summary)
        /\ s.totalPl = summary.totalPl
        /\ s.profitFactor = summary.profitFactor
        /\ SameExtremes(s, summary)
        /\ DistinctExits(d) => SameCurve(s, summary)
        /\ breakdownByDay(d) = dayBreakdown
        /\ breakdownByWeek(d) = weekBreakdown
        /\ breakdownByMonth(d) = monthBreakdown

\* C29, amended: for every permutation of the trade list the counts, the
\* win rate, maxProfitTrade and maxLossTrade are those of the list, with
\* distinct (date, exitTime) pairs the equity curve, the drawdown series,
\* maxDrawdown and maxDrawdownPct are too, and the breakdowns return rows
\* with the same labels in the same order; totalPl, profitFactor and the
\* values of the breakdown rows are sums taken in list order and are the
\* same only up to rounding.
C29_OrderIndependentUpToRounding ==
  \A p \in Orderings(Len(tradeList)) :
    \A d \in {deriveTrades(Permuted(tradeList, p))} :
      \A s \in {computeSummary(d)} :
        /\ SameCounts(s, summary)
        /\ s.winRate = summary.winRate
        /\ SameExtremes(s, summary)
        /\ DistinctExits(d) => SameCurve(s, summary)
        /\ Labels(breakdownByDay(d)) = Labels(dayBreakdown)
        /\ Labels(breakdownByWeek(d)) = Labels(weekBreakdown)
        /\ Labels(breakdownByMonth(d)) = Labels(monthBreakdown)

\* three trades closed at three different times and listed against the
\* order of their exits, whose total depends on the order they are added in
C29_Witness ==
  /\ Len(derived) = 3
  /\ DistinctExits(derived)
  /\ TupleLess(SortKey(derived[1]), SortKey(derived[2]))
  /\ TupleLess(SortKey(derived[3]), SortKey(derived[1]))
  /\ summary.wins = 2 /\ summary.losses = 1
  /\ \E p \in Orderings(3) :
       computeSummary(deriveTrades(Permuted(tradeList, p))).totalPl
         # summary.totalPl

(* ---------------------------------------------------------------------- *)
(* Strategies.  A name or a text of rules is a tuple of characters, an id  *)
(* `STR-${t}` is <<"STR-", t>>.                                            *)
(* ---------------------------------------------------------------------- *)
RECURSIVE trimStart(_)
trimStart(value) ==
  IF value # <<>> /\ Head(value) = " " THEN trimStart(Tail(value)) ELSE value

RECURSIVE trimEnd(_)
trimEnd(value) ==
  IF value # <<>> /\ value[Len(value)] = " "
  THEN trimEnd(SubSeq(value, 1, Len(value) - 1)) ELSE value

\* value.trim() of a text
trimText(value) == trimEnd(trimStart(value))

NAME_REQUIRED == "Strategy name is required."
ALREADY_EXISTS == "Strategy already exists."
STRATEGY_ADDED == "Strategy added."
STRATEGY_UPDATED == "Strategy updated."

\* `STR-${Date.now()}`
strategyId(t) == <<"STR-", t>>

\* strategies.some((item) => item.id !== exceptId &&
\*                 item.name.toLowerCase() === name.toLowerCase())
NameTaken(name, exceptId) ==
  \E i \in 1..Len(strategies) :
    /\ strategies[i].id # exceptId
    /\ LowerCased(strategies[i].name) = LowerCased(name)

\* what handleAddStrategy does with the two inputs when Date.now() reads t:
\* the list, the status, and whether the strategy was added
addStrategy(nameInput, rulesInput, t) ==
  LET name  == trimText(nameInput)
      rules == trimText(rulesInput)
  IN  IF name = <<>>
      THEN [strategies |-> strategies, status |-> NAME_REQUIRED,
            done |-> FALSE]
      ELSE IF NameTaken(name, NULL)
      THEN [strategies |-> strategies, status |-> ALREADY_EXISTS,
            done |-> FALSE]
      ELSE [strategies |-> <<[id |-> strategyId(t), name |-> name,
                              rules |-> rules]>> \o strategies,
            status |-> STRATEGY_ADDED, done |-> TRUE]

handleAddStrategy(nameInput, rulesInput, t) ==
  \E o \in {addStrategy(nameInput, rulesInput, t)} :
    /\ strategies' = o.strategies
    /\ strategyStatus' = o.status
    /\ timers' = IF o.done THEN timers + 1 ELSE timers
    /\ now' = IF o.done THEN t ELSE now
    /\ UNCHANGED <<strategyEditStatus, editStrategyId, journal, auth, csv,
                   timeZone>>

\* prev.filter((item) => item.id !== id)
RECURSIVE WithoutId(_, _)
WithoutId(list, id) ==
  IF list = <<>> THEN <<>>
  ELSE (IF Head(list).id # id THEN <<Head(list)>> ELSE <<>>)
         \o WithoutId(Tail(list), id)

handleRemoveStrategy(id) ==
  /\ strategies' = WithoutId(strategies, id)
  /\ UNCHANGED <<strategyStatus, strategyEditStatus, editStrategyId, timers,
                 now, journal, auth, csv, timeZone>>

\* what handleUpdateStrategy does on the page of the strategy id; the
\* effect that follows a change of the strategy being edited empties the
\* status again
updateStrategy(id, nameInput, rulesInput) ==
  LET name  == trimText(nameInput)
      rules == trimText(rulesInput)
  IN  IF name = <<>>
      THEN [strategies |-> strategies, status |-> NAME_REQUIRED,
            done |-> FALSE]
      ELSE IF NameTaken(name, id)
      THEN [strategies |-> strategies, status |-> ALREADY_EXISTS,
            done |-> FALSE]
      ELSE [strategies |->
              [i \in 1..Len(strategies) |->
                 IF strategies[i].id = id
                 THEN [strategies[i] EXCEPT !.name = name, !.rules = rules]
                 ELSE strategies[i]],
            status |-> IF \E i \in 1..Len(strategies) : strategies[i].id = id
                       THEN "" ELSE STRATEGY_UPDATED,
            done |-> TRUE]

handleUpdateStrategy(nameInput, rulesInput) ==
  IF editStrategyId = NULL THEN UNCHANGED vars
  ELSE \E o \in {updateStrategy(editStrategyId[1], nameInput, rulesInput)} :
         /\ strategies' = o.strategies
         /\ strategyEditStatus' = o.status
         /\ timers' = IF o.done THEN timers + 1 ELSE timers
         /\ UNCHANGED <<strategyStatus, editStrategyId, now, journal, auth,
                        csv, timeZone>>

\* a status timeout fires: on the setup page it empties the status of the
\* "add" form, on the edit page that of the "edit" form
StatusTimeout ==
  /\ timers > 0
  /\ timers' = timers - 1
  /\ IF editStrategyId = NULL
     THEN strategyStatus' = "" /\ UNCHANGED strategyEditStatus
     ELSE strategyEditStatus' = "" /\ UNCHANGED strategyStatus
  /\ UNCHANGED <<strategies, editStrategyId, now, journal, auth, csv,
                 timeZone>>

\* the dashboard is opened on another page: the component is mounted anew,
\* its timeouts are gone, and the list comes back from local storage
OpenPage(id) ==
  /\ editStrategyId' = id
  /\ strategyStatus' = ""
  /\ strategyEditStatus' = ""
  /\ timers' = 0
  /\ UNCHANGED <<strategies, now, journal, auth, csv, timeZone>>

(* ---------------------------------------------------------------------- *)
(* Specification SpecStrategies: strategies added, renamed and removed     *)
(* ---------------------------------------------------------------------- *)
MaxStrategies == 2
MaxClock == 2
MaxTimers == 2

NameInputs == {<<>>, <<" ">>, <<"a">>, <<" ", "A">>, <<"b", " ">>}
RulesInputs == {<<>>, <<" ", "r">>}

\* the lists found in local storage: none, or one strategy made earlier
StoredStrategies ==
  { <<>>,
    <<[id |-> strategyId(0), name |-> <<"A">>, rules |-> <<>>]>> }

InitStrategies ==
  /\ tradeList = <<>>
  /\ derived = deriveTrades(tradeList)
  /\ summary = computeSummary(derived)
  /\ formError = ""
  /\ importStatus = NULL
  /\ dataSource = "local"
  /\ store = <<>>
  /\ remoteCalls = <<>>
  /\ InitAuth /\ InitCsv /\ timeZone = UTC
  /\ strategies \in StoredStrategies
  /\ strategyStatus = ""
  /\ strategyEditStatus = ""
  /\ editStrategyId = NULL
  /\ timers = 0
  /\ now = 1

\* the "Add strategy" button of the setup page; the clock reads what it
\* read last or more
AddStrategy ==
  /\ editStrategyId = NULL
  /\ Len(strategies) < MaxStrategies
  /\ timers < MaxTimers
  /\ \E nameInput \in NameInputs, rulesInput \in RulesInputs,
        t \in {now, now + 1} :
       /\ t <= MaxClock
       /\ handleAddStrategy(nameInput, rulesInput, t)

\* the "Remove" button of a strategy of the setup page
RemoveStrategy ==
  /\ editStrategyId = NULL
  /\ \E i \in 1..Len(strategies) : handleRemoveStrategy(strategies[i].id)

\* the "Save" button of the edit page
UpdateStrategy ==
  /\ editStrategyId # NULL
  /\ timers < MaxTimers
  /\ \E nameInput \in NameInputs, rulesInput \in RulesInputs :
       handleUpdateStrategy(nameInput, rulesInput)

\* the "Edit" link of a strategy, an address with an id that is not in the
\* list, and the way back
Navigate ==
  \/ /\ editStrategyId = NULL
     /\ \E t \in 0..MaxClock : OpenPage(Just(strategyId(t)))
  \/ /\ editStrategyId # NULL
     /\ OpenPage(NULL)

NextStrategies ==
  AddStrategy \/ RemoveStrategy \/ UpdateStrategy \/ StatusTimeout \/ Navigate

SpecStrategies == InitStrategies /\ [][NextStrategies]_vars

(* ---------------------------------------------------------------------- *)
(* C30: the names of the strategies                                        *)
(* ---------------------------------------------------------------------- *)
NamesDistinct ==
  \A i, j \in 1..Len(strategies) :
    i # j => LowerCased(strategies[i].name) # LowerCased(strategies[j].name)

NamesNotEmpty ==
  \A i \in 1..Len(strategies) : trimText(strategies[i].name) # <<>>

IdsDistinct ==
  \A i, j \in 1..Len(strategies) : i # j => strategies[i].id # strategies[j].id

\* an add or an update that is refused leaves the list as it is
RefusedLeavesList ==
  \A nameInput \in NameInputs, rulesInput \in RulesInputs :
    /\ \A t \in {now, now + 1} :
         \A o \in {addStrategy(nameInput, rulesInput, t)} :
           o.status \in {NAME_REQUIRED, ALREADY_EXISTS}
             => o.strategies = strategies
    /\ editStrategyId # NULL =>
         \A o \in {updateStrategy(editStrategyId[1], nameInput, rulesInput)} :
           o.status \in {NAME_REQUIRED, ALREADY_EXISTS}
             => o.strategies = strategies

\* C30: from a list with distinct ids and distinct non-empty names, after
\* any adds, updates and removals the names are still distinct without
\* regard to case and not empty when trimmed, and an add or update that is
\* refused leaves the list as it is.
C30_NamesStayDistinct ==
  /\ NamesDistinct
  /\ NamesNotEmpty
  /\ RefusedLeavesList

\* what holds instead: the names are distinct as long as the ids are
C30_NamesDistinctWhileIdsAre ==
  /\ IdsDistinct => NamesDistinct
  /\ NamesNotEmpty
  /\ RefusedLeavesList

(* ---------------------------------------------------------------------- *)
(* Sessions and the queries under way.  A session is Just(the id of its    *)
(* user); inFlight holds, oldest first, the user each unanswered query of  *)
(* the loading effect asked for.                                           *)
(* ---------------------------------------------------------------------- *)
\* .eq("user_id", userId) on a table that holds the rows of every user
RowsOfUser(rows, userId) == SelectSeq(rows, LAMBDA row : row.user_id = userId)

\* the loading effect up to its await: it runs after every render with a
\* new session object that is not null
fetchTradesStart(nextSession) ==
  IF nextSession = NULL THEN UNCHANGED <<importStatus, inFlight>>
  ELSE /\ importStatus' = NULL
       /\ inFlight' = Append(inFlight, nextSession[1])

\* the listener of onAuthStateChange, the render and the effect after it
onAuthStateChange(nextSession) ==
  /\ IF nextSession # lastUserId THEN Render(<<>>)
     ELSE UNCHANGED <<tradeList, views>>
  /\ lastUserId' = nextSession
  /\ session' = nextSession
  /\ IF nextSession = NULL
     THEN /\ importStatus' = IF nextSession # lastUserId THEN NULL
                             ELSE importStatus
          /\ UNCHANGED inFlight
     ELSE fetchTradesStart(nextSession)
  /\ UNCHANGED <<formError, remote, others>>

\* the loading effect from its await on, for the i-th query under way: the
\* answer is an error or the rows of the user the query named
fetchTradesDone(i, failed) ==
  /\ inFlight' = SubSeq(inFlight, 1, i - 1)
                   \o SubSeq(inFlight, i + 1, Len(inFlight))
  /\ importStatus' = IF failed THEN FETCH_ERROR ELSE importStatus
  /\ remoteCalls' = <<"select">>
  /\ \E data \in {RowsOfUser(store, inFlight[i])} :
       Render(IF failed THEN <<>>
              ELSE MapRows(SelectTrades(data, Len(data)), Len(data)))
  /\ UNCHANGED <<formError, dataSource, store, session, lastUserId, others>>

(* ---------------------------------------------------------------------- *)
(* Specification SpecAuth: users sign in and out, in this tab or another,  *)
(* while queries are under way                                             *)
(* ---------------------------------------------------------------------- *)
MaxInFlight == 2

\* a row of the table with its owner
OwnedRow(userId, tradeId) ==
  [user_id |-> userId] @@ [BaseRow EXCEPT !.trade_id = Just(tradeId)]

\* the tables: each user's trade ids are their own
TradesTables ==
  { <<OwnedRow(UserA, "A-1"), OwnedRow(UserB, "B-1")>>,
    <<OwnedRow(UserA, "A-1"), OwnedRow(UserA, "A-2")>>,
    <<OwnedRow(UserB, "B-1")>> }

InitAuthChanges ==
  /\ tradeList = <<>>
  /\ derived = deriveTrades(tradeList)
  /\ summary = computeSummary(derived)
  /\ formError = ""
  /\ importStatus = NULL
  /\ dataSource = "supabase"
  /\ store \in TradesTables
  /\ remoteCalls = <<>>
  /\ InitAuth /\ InitSetup /\ InitCsv /\ timeZone = UTC

\* an event of the auth client: a session of either user, or none
AuthStateChange ==
  \E nextSession \in {NULL, Just(UserA), Just(UserB)} :
    /\ nextSession # NULL => Len(inFlight) < MaxInFlight
    /\ onAuthStateChange(nextSession)

\* the "Sign out" button
SignOutNow ==
  /\ session # NULL
  /\ \E signedOut \in BOOLEAN : handleSignOut(signedOut)

\* a query is answered; the answers come in any order
FetchDone ==
  \E i \in 1..Len(inFlight), failed \in BOOLEAN : fetchTradesDone(i, failed)

NextAuth == AuthStateChange \/ SignOutNow \/ FetchDone

SpecAuth == InitAuthChanges /\ [][NextAuth]_vars

(* ---------------------------------------------------------------------- *)
(* C26: whose trades are listed                                            *)
(* ---------------------------------------------------------------------- *)
\* the owners of the listed trade i in the table
OwnersOf(i) ==
  { store[k].user_id : k \in { k \in 1..Len(store) :
                                 store[k].trade_id = Just(tradeList[i].tradeId) } }

\* C26: in remote mode, however auth changes, sign-out and the answers to
\* the queries under way interleave, when the session is another user's or
\* nobody's the list holds no trade that was fetched for another user.
C26_ListedTradesAreTheSessionsUsers ==
  \A i \in 1..Len(tradeList) : \A owner \in OwnersOf(i) : session = Just(owner)

\* what holds instead: the listed trades are those of one user, the one
\* of the session or one a query was sent for
C26_ListedTradesAreOneUsers ==
  \A i, j \in 1..Len(tradeList) : OwnersOf(i) = OwnersOf(j)

====
